---- MODULE Spec2Model ----
(***************************************************************************)
(* kerosene: the playbook execution engine (src/src/main.rs) with the      *)
(* modules it dispatches (src/src/task/*.rs).                              *)
(*                                                                         *)
(* One play at a time is driven through process_play; the playbook and the *)
(* role files are inputs, read where the code reads them (load_yaml in     *)
(* process_role, the fields of Play in process_play).                      *)
(***************************************************************************)
EXTENDS Integers, Sequences, FiniteSets, TLC

\* ------------------------------------------------------------------ bounds
MaxHandlers == 2    \* handlers of one handlers/main.yml
MaxPending == 2     \* notifications queued and not yet flushed
MaxDepth == 2       \* nested run_handlers calls (a handler that is meta flush_handlers)
MaxEntries == 3     \* entries of one task or handler mapping

\* ------------------------------------------------------------ value domain
\* Option::None for the optional strings of a description.
None == "<none>"

EmptyMap == [k \in {} |-> ""]

\* serde_yaml::Value, as far as the modules tell values apart.
VString(s) == [tag |-> "string", str |-> s, map |-> EmptyMap]
VMapping(m) == [tag |-> "mapping", str |-> "", map |-> m]
VNumber == [tag |-> "number", str |-> "", map |-> EmptyMap]

FactKeys == {"a", "b"}
FactVals == {"1", "2"}
FactMaps == UNION {[D -> FactVals] : D \in SUBSET FactKeys}

RoleNames == {"r1", "r2"}
HandlerNames == {"h1", "h2"}

\* "<role> : <name>", the role-qualified handler key (format! at main.rs:148).
Qualified(role, name) == role \o " : " \o name

NotifyNames == HandlerNames \cup {Qualified("r1", "h1")}

SetFactId == "ansible.builtin.set_fact"
ShellId == "ansible.builtin.shell"
MetaId == "ansible.builtin.meta"

\* --------------------------------------------------------------- the inputs
\* The registered meta actions (MetaTaskAction's unit variants, snake_case).
MetaUnitVariants == {"clear_facts", "clear_host_errors", "end_batch", "end_host",
                     "end_play", "flush_handlers", "noop", "refresh_inventory",
                     "reset_connection"}

ShellArgs == VMapping([cmd |-> "id"])

\* The values under the key `meta`: handled actions, an action that is only
\* logged, a string that names no action, and values that are no string.
MetaArgs ==
    {VString("flush_handlers"), VString("noop"), VString("reset_connection"),
     VString("end_play"), VString("bogus"), VNumber, VMapping(EmptyMap)}

Seqs(S, n) == UNION {[1..k -> S] : k \in 0..n}

\* TaskDescription, the fields process_tasks reads.
Task(id, args, become, become_user, notify) ==
    [task_id |-> id, args |-> args, become |-> become,
     become_user |-> become_user, notify |-> notify]

\* The notify lists of the playbooks: empty, one name, one name twice, two names.
NotifyLists ==
    {<<>>, <<"h1">>, <<"h1", "h1">>, <<"h1", "h2">>, <<Qualified("r1", "h1")>>}

\* The tasks of the playbooks whose handlers are followed: shell and meta
\* tasks, with and without become and notify.
TaskSet ==
    {Task(ShellId, ShellArgs, FALSE, None, n) : n \in NotifyLists}
        \cup {Task(ShellId, ShellArgs, TRUE, "u", <<>>)}
        \cup {Task(MetaId, VString("flush_handlers"), FALSE, None, n) : n \in {<<>>, <<"h1">>}}
        \cup {Task(MetaId, a, FALSE, None, <<>>) : a \in {VString("noop"), VNumber}}

\* The tasks of the playbooks without notify: set_fact, shell and meta tasks.
QuietTaskSet ==
    {Task(SetFactId, VMapping(m), FALSE, None, <<>>) : m \in FactMaps}
        \cup {Task(SetFactId, VString("a=1"), FALSE, None, <<>>),
              Task(ShellId, ShellArgs, FALSE, None, <<>>)}
        \cup {Task(MetaId, a, FALSE, None, <<>>) : a \in MetaArgs}

NoTask == Task("", VNumber, FALSE, None, <<>>)

\* HandlerDescription, the fields register_handlers and run_handlers read.
Handler(name, listen, id, args) ==
    [name |-> name, listen |-> listen, task_id |-> id, args |-> args]

NoHandler == Handler(None, None, "", VNumber)

HandlerSet ==
    {Handler("h1", None, ShellId, ShellArgs),
     Handler("h2", "h1", MetaId, VString("flush_handlers")),
     Handler(None, "h2", ShellId, VMapping([cmd |-> "true"]))}

HandlerLists == Seqs(HandlerSet, MaxHandlers)

\* Option<T> of a file that load_yaml may not find, or of an absent field.
Absent == [some |-> FALSE, val |-> <<>>]
Some(v) == [some |-> TRUE, val |-> v]
Option(S) == {Absent} \cup {Some(v) : v \in S}

\* TaskDescription with the fields the parser fills and process_tasks does not
\* read: delegate_to, when, register, vars.
TaskDescription(task, delegate_to, when, register, vars) ==
    [task_id |-> task.task_id, args |-> task.args, become |-> task.become,
     become_user |-> task.become_user, notify |-> task.notify,
     delegate_to |-> delegate_to, when |-> when, register |-> register, vars |-> vars]

\* The tasks of the playbooks that use those fields: a task has none of them,
\* or each of them with a value that would show if it were acted upon.
TaskDescriptions ==
    {TaskDescription(t, x[1], x[2], x[3], x[4]) :
        t \in {Task(SetFactId, VMapping([a |-> "1"]), FALSE, None, <<>>),
               Task(ShellId, ShellArgs, FALSE, None, <<>>),
               Task(ShellId, ShellArgs, TRUE, "u", <<>>),
               Task(MetaId, VString("flush_handlers"), FALSE, None, <<>>)},
        x \in {<<None, <<>>, None, Absent>>,
               <<"h2", <<"false">>, "b", Some([b |-> "2"])>>}}

\* ------------------------------------------------------------------- errors
NoError == [kind |-> "none", name |-> ""]
Err(kind, name) == [kind |-> kind, name |-> name]

\* --------------------------------------------------------------- the state
VARIABLES
    pc,                \* main / process_play / process_role: the statement reached
    role,              \* process_role: role.name()
    facts,             \* ctx.facts
    do_become_user,    \* ctx.do_become_user
    pending_handlers,  \* ctx.pending_handlers
    known_handlers,    \* ctx.known_handlers
    cur,               \* process_tasks: the task the `for task in tasks` loop is at
    tflush,            \* process_tasks: its `flush_handlers` argument
    tpc,               \* process_tasks: the statement reached ("idle": not running)
    hstack,            \* the run_handlers calls in progress, innermost last
    error,             \* the Err that unwound to main (NoError: none)
    \* observations, written but never read by the engine
    phase,             \* the last phase of this play that began or ended
    owed,              \* per name: notifications pushed minus handler runs completed
    ranAny,            \* a handler's module has returned Ok in this play
    lateNames,         \* queued names that were no key of known_handlers when pushed
    inflight,          \* task module invocations started and not yet returned
    unpushed,          \* tasks whose module returned Ok and whose notify is not pushed
    loaded,            \* process_role: the defaults/main.yml or handlers/main.yml just loaded
    \* the layers under the engine
    all_tasks,         \* known_tasks: the map the initialiser of TASKS is building
    visited,           \* known_tasks: the descriptors `inventory::iter` has yielded
    visitor,           \* TaskVisitor::visit_map: its locals, and what it returned
    command_target,    \* ctx.command_target
    child,             \* run_command_opts: the command handed to spawn()
    waited,            \* run_command_opts: what child.wait() and ensure_success returned
    \* the context mutex, and the calls in progress statement by statement
    mutex,             \* TaskContext's Mutex: 0 when free, else the frame holding the guard
    lstack,            \* the calls in progress, innermost last, each at a statement
    blocked,           \* a lock().await was reached while a guard was alive
    lerr,              \* the innermost call that returned, returned Err
    \* the modules
    systemd,           \* SystemdTask::run_structured: the task, the statement, the commands run
    play_basedir,      \* ctx.play_basedir
    resource_dirs,     \* ctx.resource_dirs
    resolved           \* resolve_local_file: its arguments, the files there are, its result

ctx == <<facts, do_become_user, pending_handlers, known_handlers>>
ptv == <<cur, tflush, tpc>>
obs == <<phase, owed, ranAny, lateNames, inflight, unpushed, loaded>>
vars == <<pc, role, ctx, ptv, hstack, error, obs>>
registry == <<all_tasks, visited>>
cmdlayer == <<command_target, child, waited>>
locks == <<mutex, lstack, blocked, lerr>>
files == <<play_basedir, resource_dirs, resolved>>
layers == <<registry, visitor, cmdlayer, locks, systemd, files>>

\* ------------------------------------------------------- the pure functions
\* TaskContextInner::default(): what `let ctx: TaskContext = Default::default()` builds.
DefaultFacts == EmptyMap
\* (mutant) a context begins with a handler registered under h1.
KnownHandlersWithH1 == [k \in {"h1"} |-> Handler("h1", None, ShellId, ShellArgs)]

DefaultKnownHandlers == [k \in {} |-> NoHandler]

\* (mutant) the defaults are inserted over the facts already present.
LoadDefaultsInsert(f, defaults) ==
    [k \in DOMAIN f \cup DOMAIN defaults |->
        IF k \in DOMAIN defaults THEN defaults[k] ELSE f[k]]

\* process_role: `ctx.facts.entry(key).or_insert(value)` for every default.
LoadDefaults(f, defaults) ==
    [k \in DOMAIN f \cup DOMAIN defaults |-> IF k \in DOMAIN f THEN f[k] ELSE defaults[k]]

\* (mutant) set_fact keeps the value of a key that is already present.
SetFactOrInsert(f, m) ==
    [k \in DOMAIN f \cup DOMAIN m |-> IF k \in DOMAIN f THEN f[k] ELSE m[k]]

\* SetFactTask::run_structured: `context.facts.insert(key, value)` for every key.
SetFact(f, m) ==
    [k \in DOMAIN f \cup DOMAIN m |-> IF k \in DOMAIN m THEN m[k] ELSE f[k]]

\* (mutant) a handler of a role is indexed under its bare name and its listen.
HandlerKeysUnqualified(h, r) ==
    (IF h.name # None THEN {h.name} ELSE {})
        \cup (IF h.listen # None THEN {h.listen} ELSE {})

\* register_handlers: the names one handler is indexed under.
HandlerKeys(h, r) ==
    (IF h.name # None THEN {Qualified(r, h.name), h.name} ELSE {})
        \cup (IF h.listen # None THEN {h.listen} ELSE {})

\* (mutant) a name that is a key already keeps its handler, or_insert.
RECURSIVE RegisterHandlersOrInsert(_, _, _)
RegisterHandlersOrInsert(known, handlers, r) ==
    IF handlers = <<>> THEN known
    ELSE LET h == Head(handlers)
             names == HandlerKeys(h, r)
             k1 == [k \in DOMAIN known \cup names |->
                       IF k \in DOMAIN known THEN known[k] ELSE h]
         IN RegisterHandlersOrInsert(k1, Tail(handlers), r)

\* register_handlers: `known_handlers.insert(name, handler.clone())` for each
\* name of each handler, handlers in file order.
RECURSIVE RegisterHandlers(_, _, _)
RegisterHandlers(known, handlers, r) ==
    IF handlers = <<>> THEN known
    ELSE LET h == Head(handlers)
             names == HandlerKeys(h, r)
             k1 == [k \in DOMAIN known \cup names |-> IF k \in names THEN h ELSE known[k]]
         IN RegisterHandlers(k1, Tail(handlers), r)

\* process_tasks: the value written to do_become_user before the module runs.
BecomeUser(task) ==
    IF task.become
    THEN (IF task.become_user = None THEN "root" ELSE task.become_user)
    ELSE None

\* (mutant) a task without notify queues a handler all the same.
PushNotifyAlways(pending, notify) ==
    pending \o (IF notify = <<>> THEN <<"h1">> ELSE notify)

\* process_tasks: `pending_handlers.push_back(notify)` for each entry of task.notify.
PushNotify(pending, notify) == pending \o notify

\* (mutant) the queue is drained from its tail, pop_back.
PopBack(queue) == <<queue[Len(queue)], SubSeq(queue, 1, Len(queue) - 1)>>

\* run_handlers: `pending_handlers.pop_front()`, as <<the name, the rest>>.
PopFront(queue) == <<Head(queue), Tail(queue)>>

\* (mutant) a name that is no key resolves to some registered handler.
LookupAny(known, name) ==
    IF name \in DOMAIN known THEN Some(known[name])
    ELSE IF DOMAIN known # {} THEN Some(known[CHOOSE k \in DOMAIN known : TRUE])
    ELSE Absent

\* run_handlers: `ctx.known_handlers.get(handler_name.as_str())`.
Lookup(known, name) == IF name \in DOMAIN known THEN Some(known[name]) ELSE Absent

\* (mutant) a string that names no unit variant is taken as noop.
MetaActionAnyString(args) ==
    IF args.tag = "string"
    THEN (IF args.str \in MetaUnitVariants THEN args.str ELSE "noop")
    ELSE "unknown"

\* MetaTask's Deserialize: a string naming a unit variant is that variant, any
\* other value is Unknown(value).
MetaAction(args) ==
    IF args.tag = "string" /\ args.str \in MetaUnitVariants THEN args.str ELSE "unknown"

\* One module invocation `(task.run)(ctx, args)`: the results it may have. A
\* result is ok (with the facts it leaves), err (the Err returned), or flush
\* (meta flush_handlers: the module calls run_handlers and returns its result).
ModuleRun(id, args, f) ==
    LET ok(g) == [kind |-> "ok", facts |-> g, err |-> NoError]
        err(e) == [kind |-> "err", facts |-> f, err |-> e]
    IN  IF id = SetFactId
        THEN IF args.tag = "mapping"
             THEN {ok(SetFact(f, args.map))}
             ELSE {err(Err("deserialize", id))}
        ELSE IF id = ShellId
        THEN IF args.tag = "mapping" /\ "cmd" \in DOMAIN args.map
             THEN {ok(f), err(Err("unsuccessful run", id))}
             ELSE {err(Err("deserialize", id))}
        ELSE \* MetaId
             IF MetaAction(args) = "flush_handlers"
             THEN {[kind |-> "flush", facts |-> f, err |-> NoError]}
             ELSE IF MetaAction(args) = "unknown"
             THEN {err(Err("unknown meta action", id))}
             ELSE {ok(f)}

\* (mutant) the Err of a callee is dropped and the caller goes on.
RunningRegardless == TRUE

\* `?`: an Err returned by a callee is returned by the caller, up to main,
\* which returns it; nothing of the engine runs after it.
Running == error = NoError

\* ------------------------------------------------------------ observations
ZeroOwed == [n \in NotifyNames |-> 0]

Bump(f, names, d) ==
    LET RECURSIVE go(_, _)
        go(g, i) == IF i > Len(names) THEN g
                    ELSE go([g EXCEPT ![names[i]] = @ + d], i + 1)
    IN go(f, 1)

Range(q) == {q[i] : i \in 1..Len(q)}

\* -------------------------------------------------------------------- Init
EngineInit ==
    /\ pc = "main"
    /\ role = None
    /\ facts = DefaultFacts
    /\ do_become_user = None
    /\ pending_handlers = <<>>
    /\ known_handlers = DefaultKnownHandlers
    /\ cur = NoTask /\ tflush = FALSE /\ tpc = "idle"
    /\ hstack = <<>>
    /\ error = NoError
    /\ phase = "start" /\ owed = ZeroOwed /\ ranAny = FALSE
    /\ lateNames = {} /\ inflight = 0 /\ unpushed = 0 /\ loaded = Absent

\* ------------------------------------------------------------ the registry
\* A KeroseneTaskInfo: fqdn, aliases, and the entry point `run`.
Descriptor(fqdn, aliases, run) == [fqdn |-> fqdn, aliases |-> aliases, run |-> run]

\* The descriptors the modules submit with `inventory::submit!`.
Inventory ==
    { Descriptor("ansible.builtin.copy", <<"copy">>, "CopyTask::run"),
      Descriptor("kerosene.builtin.curl", <<"curl">>, "Curl::run"),
      Descriptor("ansible.builtin.import_tasks", <<"import_tasks">>, "ImportTasks::run"),
      Descriptor("ansible.builtin.meta", <<"meta">>, "MetaTask::run"),
      Descriptor("ansible.builtin.set_fact", <<"set_fact">>, "SetFactTask::run"),
      Descriptor("ansible.builtin.shell", <<"shell">>, "ShellTask::run"),
      Descriptor("ansible.builtin.systemd_service",
                 <<"systemd_service", "ansible.builtin.systemd", "systemd">>,
                 "SystemdTask::run"),
      Descriptor("ansible.builtin.template", <<"template">>, "TemplateTask::run") }

\* TaskId::Task(id) and TaskId::Alias { id, alias }.
TaskIdTask(id) == [variant |-> "Task", id |-> id, alias |-> None]
TaskIdAlias(alias, id) == [variant |-> "Alias", id |-> id, alias |-> alias]
NoTaskId == [variant |-> "None", id |-> None, alias |-> None]

\* (mutant) name() of an alias is the alias that was used.
TaskIdNameOfKey(t) == IF t.variant = "Alias" THEN t.alias ELSE t.id

\* TaskId::name(): the id of every variant.
TaskIdName(t) == t.id

\* HashMap::insert.
Insert(m, k, v) == [x \in DOMAIN m \cup {k} |-> IF x = k THEN v ELSE m[x]]

\* known_tasks, the body of `for task in inventory::iter`: the fqdn is
\* inserted, then each alias in turn.
RECURSIVE InsertAliases(_, _, _)
InsertAliases(tasks, aliases, fqdn) ==
    IF aliases = <<>> THEN tasks
    ELSE InsertAliases(Insert(tasks, Head(aliases), TaskIdAlias(Head(aliases), fqdn)),
                       Tail(aliases), fqdn)

RegisterDescriptor(tasks, d) ==
    InsertAliases(Insert(tasks, d.fqdn, TaskIdTask(d.fqdn)), d.aliases, d.fqdn)

\* get_task(id): the key is looked up in known_tasks(), and the descriptor
\* whose fqdn is the name() of the TaskId found is returned.
GetTask(id) ==
    IF id \in DOMAIN all_tasks
    THEN LET found == {d \in Inventory : d.fqdn = TaskIdName(all_tasks[id])}
         IN IF found = {} THEN Absent ELSE Some(CHOOSE d \in found : TRUE)
    ELSE Absent

\* TASKS is empty until get_or_init has run its initialiser.
RegistryInit ==
    /\ all_tasks = [k \in {} |-> NoTaskId]
    /\ visited = {}

\* known_tasks() has returned: every descriptor has been iterated.
RegistryReady == visited = Inventory

\* known_tasks: `inventory::iter` yields the next descriptor, in an order the
\* code does not fix.
RegistryVisit ==
    /\ \E d \in Inventory \ visited :
          /\ all_tasks' = RegisterDescriptor(all_tasks, d)
          /\ visited' = visited \cup {d}
    /\ UNCHANGED <<vars, visitor, cmdlayer, locks, systemd, files>>

\* -------------------------------------------------------------- the parser
\* serde_yaml::Value, as far as visit_map tells values apart.
YString(x) == [tag |-> "string", str |-> x, seq |-> <<>>, bool |-> FALSE]
YBool(b) == [tag |-> "bool", str |-> "", seq |-> <<>>, bool |-> b]
YNumber == [tag |-> "number", str |-> "", seq |-> <<>>, bool |-> FALSE]
YMapping == [tag |-> "mapping", str |-> "", seq |-> <<>>, bool |-> FALSE]
YSequence(q) == [tag |-> "sequence", str |-> "", seq |-> q, bool |-> FALSE]

\* Value::as_str, Value::as_bool.
AsStr(v) == IF v.tag = "string" THEN Some(v.str) ELSE Absent
AsBool(v) == IF v.tag = "bool" THEN Some(v.bool) ELSE Absent

\* serde_yaml::from_value::<Vec<String>>: a sequence whose elements are all
\* strings, as the sequence of these strings.
FromValueVecString(v) ==
    IF v.tag = "sequence" /\ \A i \in 1..Len(v.seq) : v.seq[i].tag = "string"
    THEN Some([i \in 1..Len(v.seq) |-> v.seq[i].str])
    ELSE Absent

\* HashMap::<String, Value>::deserialize(value), told apart by Ok and Err only.
FromValueMap(v) == IF v.tag = "mapping" THEN Some("vars") ELSE Absent

\* One entry of the YAML mapping.
Entry(key, value) == [key |-> key, value |-> value]
NoEntry == Entry(None, YNumber)

\* The entries the mappings are made of: every generic key with a value of the
\* expected type and with another one, module keys, and a key nothing knows.
EntrySet ==
    {Entry(k, v) : k \in {"name", "delegate_to", "become_user", "register", "listen"},
                   v \in {YString("x"), YNumber}}
    \cup {Entry("become", v) : v \in {YBool(TRUE), YString("x")}}
    \cup {Entry("when", v) : v \in {YString("e"), YSequence(<<YString("e")>>),
                                    YSequence(<<>>), YSequence(<<YNumber>>), YBool(TRUE)}}
    \cup {Entry("notify", v) : v \in {YSequence(<<YString("h1")>>), YString("h1")}}
    \cup {Entry("vars", v) : v \in {YMapping, YString("x")}}
    \cup {Entry("shell", YMapping), Entry("ansible.builtin.shell", YString("id")),
          Entry("meta", YString("flush_handlers")), Entry("foo", YNumber)}

\* The parse results: none yet, Ok(description), Err(message), or a panic.
NoResult == [kind |-> "none", msg |-> ""]
ParseOk == [kind |-> "ok", msg |-> ""]
ParseErr(msg) == [kind |-> "error", msg |-> msg]
ParsePanic == [kind |-> "panic", msg |-> "called Option::unwrap() on a None value"]

\* The locals of visit_map before its loop, for a task or a handler.
Locals(expect_handler) ==
    [expect_handler |-> expect_handler,
     name |-> Absent, task_id |-> Absent, args |-> Absent, become |-> Absent,
     become_user |-> Absent, delegate_to |-> Absent, when |-> Absent,
     notify |-> Absent, register |-> Absent, vars |-> Absent, listen |-> Absent,
     at |-> "loop", result |-> NoResult,
     \* observations: the entry read last, how many were read, the keys read
     \* before it, and the recognised module keys among all of them
     entry |-> NoEntry, read |-> 0, seen |-> {}, module_keys |-> <<>>]

\* No mapping is being parsed.
VisitorIdle == [Locals(FALSE) EXCEPT !.at = "idle"]

\* `return Err(serde::de::Error::custom(msg))`.
Fail(v, msg) == [v EXCEPT !.at = "returned", !.result = ParseErr(msg)]

\* (mutant) a second occurrence of the key replaces the first.
SetAgain(v, field, conv, wrong) ==
    IF conv.some THEN [v EXCEPT ![field] = Some(conv.val)]
    ELSE Fail(v, wrong)

\* An arm of the match for a key whose local is `field` and whose value is
\* converted by `conv`: the local is set when it is None and the conversion
\* succeeds.
SetOnce(v, field, conv, wrong) ==
    IF v[field].some THEN Fail(v, "duplicate " \o field)
    ELSE IF conv.some THEN [v EXCEPT ![field] = Some(conv.val)]
    ELSE Fail(v, wrong)

\* (mutant) only a sequence is taken for `when`.
WhenArmSequenceOnly(v, value) ==
    IF v.when.some THEN Fail(v, "duplicate when")
    ELSE IF FromValueVecString(value).some
    THEN [v EXCEPT !.when = FromValueVecString(value)]
    ELSE Fail(v, "expected when to be a list of strings")

\* The arm `"when"`: a string is the one-element vector of it, a sequence is
\* converted by from_value.
WhenArm(v, value) ==
    IF v.when.some THEN Fail(v, "duplicate when")
    ELSE IF AsStr(value).some THEN [v EXCEPT !.when = Some(<<AsStr(value).val>>)]
    ELSE IF value.tag = "sequence"
    THEN IF FromValueVecString(value).some
         THEN [v EXCEPT !.when = FromValueVecString(value)]
         ELSE Fail(v, "expected when to be a list of strings")
    ELSE Fail(v, "expected when to be a list of strings, or a string")

\* (mutant) a second module key replaces the first.
ModuleArmLastWins(v, key, value) ==
    IF key \in DOMAIN all_tasks
    THEN [v EXCEPT !.task_id = Some(all_tasks[key]), !.args = Some(value)]
    ELSE v

\* The arm `key =>`: a key of known_tasks() sets task_id and args once, any
\* other key is logged and skipped.
ModuleArm(v, key, value) ==
    IF key \in DOMAIN all_tasks
    THEN IF ~v.task_id.some
         THEN [v EXCEPT !.task_id = Some(all_tasks[key]), !.args = Some(value)]
         ELSE Fail(v, "duplicate task details")
    ELSE v

\* The body of `while let Some((key, value)) = map.next_entry()`: the match
\* on the key.
VisitEntryOf(v, e) ==
    CASE e.key = "name" -> SetOnce(v, "name", AsStr(e.value), "name is not a string")
      [] e.key = "delegate_to" ->
            SetOnce(v, "delegate_to", AsStr(e.value), "delegate_to is not a string")
      [] e.key = "become" ->
            SetOnce(v, "become", AsBool(e.value), "name is not a boolean")
      [] e.key = "become_user" ->
            SetOnce(v, "become_user", AsStr(e.value), "become_user is not a string")
      [] e.key = "when" -> WhenArm(v, e.value)
      [] e.key = "listen" /\ v.expect_handler ->
            SetOnce(v, "listen", AsStr(e.value), "listen is not a string")
      [] e.key = "notify" /\ ~v.expect_handler ->
            SetOnce(v, "notify", FromValueVecString(e.value),
                    "expected notify to be a list of strings")
      [] e.key = "register" ->
            SetOnce(v, "register", AsStr(e.value), "register is not a string")
      [] e.key = "vars" -> SetOnce(v, "vars", FromValueMap(e.value), "vars is not a mapping")
      [] OTHER -> ModuleArm(v, e.key, e.value)

\* Option::unwrap_or_default, Option<String> as a field.
UnwrapOr(o, default) == IF o.some THEN o.val ELSE default

\* (mutant) a handler is built whether or not it has a name or a listen.
FinishUnnamed(v) ==
    IF ~v.task_id.some
    THEN [v EXCEPT !.at = "returned", !.result = ParsePanic]
    ELSE [v EXCEPT !.at = "returned", !.result = ParseOk]

\* visit_map after its loop: a handler must have a name or a listen, and
\* `task_id.unwrap()` and `args.unwrap()` build the description.
Finish(v) ==
    IF v.expect_handler /\ ~v.name.some /\ ~v.listen.some
    THEN Fail(v, "handler is expected to have at least name or listen")
    ELSE IF ~v.task_id.some
    THEN [v EXCEPT !.at = "returned", !.result = ParsePanic]
    ELSE [v EXCEPT !.at = "returned", !.result = ParseOk]

\* The TaskDescription that visit_map returns in Ok.
TaskDescriptionOf(v) ==
    [name |-> v.name, task_id |-> v.task_id.val, args |-> v.args.val,
     become |-> UnwrapOr(v.become, FALSE), become_user |-> v.become_user,
     delegate_to |-> v.delegate_to, when |-> UnwrapOr(v.when, <<>>),
     notify |-> UnwrapOr(v.notify, <<>>), register |-> v.register, vars |-> v.vars]

\* The HandlerDescription that visit_map returns in Ok.
HandlerDescriptionOf(v) ==
    [name |-> v.name, task_id |-> v.task_id.val, args |-> v.args.val,
     become |-> UnwrapOr(v.become, FALSE), become_user |-> v.become_user,
     when |-> UnwrapOr(v.when, <<>>), listen |-> v.listen, vars |-> v.vars]

\* The handler as register_handlers reads it: its name, its listen, its module.
RegisteredAs(h) ==
    Handler(UnwrapOr(h.name, None), UnwrapOr(h.listen, None),
            TaskIdName(h.task_id), VNumber)

VisitorInit == visitor = VisitorIdle

\* TaskDescription::deserialize / HandlerDescription::deserialize: visit_map
\* is entered for the next mapping of a YAML file.
VisitMap ==
    /\ RegistryReady
    /\ visitor.at \in {"idle", "returned"}
    /\ \E expect_handler \in BOOLEAN : visitor' = Locals(expect_handler)
    /\ UNCHANGED <<vars, registry, cmdlayer, locks, systemd, files>>

\* `map.next_entry()` yields an entry and the match runs on it.
VisitEntry ==
    /\ visitor.at = "loop" /\ visitor.read < MaxEntries
    /\ \E e \in EntrySet :
          visitor' = [VisitEntryOf(visitor, e) EXCEPT
                         !.entry = e,
                         !.read = @ + 1,
                         !.seen = IF visitor.entry = NoEntry THEN {}
                                  ELSE @ \cup {visitor.entry.key},
                         !.module_keys = IF e.key \in DOMAIN all_tasks
                                         THEN Append(@, e.key) ELSE @]
    /\ UNCHANGED <<vars, registry, cmdlayer, locks, systemd, files>>

\* `map.next_entry()` yields None: the loop is over.
VisitEnd ==
    /\ visitor.at = "loop"
    /\ visitor' = Finish(visitor)
    /\ UNCHANGED <<vars, registry, cmdlayer, locks, systemd, files>>

\* ------------------------------------------------------- the command layer
\* An OsString is the sequence of its pieces: a piece is one backslash, or a
\* run of other characters.
Backslash == "\\"
Str(s) == <<s>>

\* `.replace("\\", "\\\\")`: every backslash becomes two.
RECURSIVE Escape(_)
Escape(s) ==
    IF s = <<>> THEN <<>>
    ELSE (IF Head(s) = Backslash THEN <<Backslash, Backslash>> ELSE <<Head(s)>>)
         \o Escape(Tail(s))

\* CommandTarget::Local { elevate, dry } and ::Remote { hostname, user, elevate, dry }.
Local(elevate, dry) ==
    [kind |-> "Local", hostname |-> <<>>, user |-> Absent, elevate |-> elevate, dry |-> dry]
Remote(hostname, user, elevate, dry) ==
    [kind |-> "Remote", hostname |-> hostname, user |-> user, elevate |-> elevate,
     dry |-> dry]

\* CommandTarget::default().
DefaultTarget == Local(Absent, FALSE)

\* The targets a context may hold; nothing in the program gives a target an
\* elevation other than run_command_opts.
Hostnames == {Str("h"), <<"h", Backslash, "x">>}
Users == {Absent, Some(Str("u"))}
Targets ==
    {Local(Absent, dry) : dry \in BOOLEAN}
    \cup {Remote(h, u, Absent, dry) : h \in Hostnames, u \in Users, dry \in BOOLEAN}

\* The `command` vectors the modules pass, and their working directories.
Commands ==
    { <<Str("id")>>,
      <<Str("/bin/sh"), Str("-c"), Str("id")>>,
      <<Str("/bin/sh"), Str("-c"), <<"printf a", Backslash, "n">>>>,
      << <<"c", Backslash, "d">>, Str("x")>> }
WorkingDirectories == {Absent, Some(Str("/d")), Some(<<"d", Backslash, "e">>)}

\* PreparedCommand::new(target, cmd).chdir(..).args(..), and read_only().
Prepared(target, command, args, working_directory, read_only) ==
    [target |-> target, command |-> command, args |-> args,
     working_directory |-> working_directory, read_only |-> read_only]

\* run_command_opts: the elevation vector for a become user.
Elevation(become_user) == <<Str("sudo"), <<"--user=", become_user>>, Str("--")>>

\* run_command_opts: the target is cloned and, when do_become_user is set,
\* given the elevation vector.
Elevated(target, become_user) ==
    IF become_user # None
    THEN [target EXCEPT !.elevate = Some(Elevation(become_user))]
    ELSE target

\* `for arg in &self.args`: each argument, escaped.
EscapeAll(q) == [i \in 1..Len(q) |-> Escape(q[i])]

\* (mutant) dry-run is not looked at.
PrepareCommandWet(p) == <<p.command>> \o p.args

\* prepare_command, the arms for CommandTarget::Local.
LocalArgv(p) ==
    IF p.target.elevate.some
    THEN <<Head(p.target.elevate.val)>> \o Tail(p.target.elevate.val)
         \o <<p.command>> \o p.args
    ELSE <<p.command>> \o p.args

\* prepare_command, the arm for CommandTarget::Remote.
RemoteArgv(p) ==
    <<Str("ssh")>>
    \o <<IF p.target.user.some
         THEN p.target.user.val \o Str("@") \o p.target.hostname
         ELSE p.target.hostname>>
    \o (IF p.target.elevate.some THEN p.target.elevate.val ELSE <<>>)
    \o (IF p.working_directory.some
        THEN <<Str("env"), Str("--chdir"), p.working_directory.val>>
        ELSE <<>>)
    \o <<Escape(p.command)>>
    \o EscapeAll(p.args)

\* PreparedCommand::prepare_command, as the argv <<command>> \o args.
PrepareCommand(p) ==
    IF ~p.read_only /\ p.target.dry THEN <<Str("true")>>
    ELSE IF p.target.kind = "Local" THEN LocalArgv(p)
    ELSE RemoteArgv(p)

\* PreparedCommand::to_command: the argv, and the child's current directory,
\* which is set for a Local target only.
ToCommand(p) ==
    [argv |-> PrepareCommand(p),
     current_dir |-> IF p.target.kind = "Local" THEN p.working_directory ELSE Absent,
     prepared |-> p,
     spawned |-> TRUE]

NoChild ==
    [argv |-> <<>>, current_dir |-> Absent,
     prepared |-> Prepared(DefaultTarget, <<>>, <<>>, Absent, FALSE),
     spawned |-> FALSE]

\* An ExitStatus: code() is Some when the child exited, signal() is Some when
\* a signal terminated it.
Exited(code) == [code |-> Some(code), signal |-> Absent]
Signaled(signal) == [code |-> Absent, signal |-> Some(signal)]

\* The statuses child.wait() returns, and the case that spawn() itself failed.
ExitCodes == {0, 1, 2, 255}
Signals == {1, 9, 15}
ExitStatuses == {Exited(c) : c \in ExitCodes} \cup {Signaled(g) : g \in Signals}
NotSpawned == [code |-> Absent, signal |-> Absent]

\* ExitStatus::success(): the child exited, with code 0.
Success(status) == status.code.some /\ status.code.val = 0

\* eyre::Result<()> of the command layer: Ok, or Err with its message and the
\* number the message ends with.
CommandOk == [ok |-> TRUE, msg |-> "", n |-> 0]
CommandErr(msg, n) == [ok |-> FALSE, msg |-> msg, n |-> n]

\* (mutant) the signal number is reported as it is.
EnsureSuccessRawSignal(status) ==
    IF ~Success(status)
    THEN CommandErr("unsuccessful run: exit status",
                    IF status.code.some THEN status.code.val
                    ELSE IF status.signal.some THEN status.signal.val ELSE 0)
    ELSE CommandOk

\* ExitStatus::ensure_success.
EnsureSuccess(status) ==
    IF ~Success(status)
    THEN CommandErr("unsuccessful run: exit status",
                    IF status.code.some THEN status.code.val
                    ELSE 128 + (IF status.signal.some THEN status.signal.val ELSE 0))
    ELSE CommandOk

\* run_command_opts from spawn() on: `.spawn().wrap_err("failed to spawn child")?`,
\* then `child.wait()?.ensure_success()?`.
SpawnAndWait(status) ==
    [status |-> status,
     result |-> IF status = NotSpawned THEN CommandErr("failed to spawn child", 0)
                ELSE EnsureSuccess(status)]

NoWait == [status |-> NotSpawned, result |-> CommandOk]

CommandInit ==
    /\ command_target = DefaultTarget
    /\ child = NoChild
    /\ waited = NoWait


\* ------------------------------------------------------- the context mutex
\* The program is one task: its calls nest, and each call in progress is at a
\* statement. A call in progress is [fn, at, arg]: the function, the statement
\* it is at ("enter": its first), and its argument.

\* What a statement does next, as far as the mutex goes: `lock().await`, the
\* drop of the guard at the end of its block or statement, a step that leaves
\* the mutex alone, a call, or the return (Ok, or Err) of the function.
Lock(to) == [op |-> "lock", to |-> to, fn |-> "", arg |-> FALSE]
Drop(to) == [op |-> "drop", to |-> to, fn |-> "", arg |-> FALSE]
Goto(to) == [op |-> "goto", to |-> to, fn |-> "", arg |-> FALSE]
Call(fn, arg, to) == [op |-> "call", to |-> to, fn |-> fn, arg |-> arg]
Return(err) == [op |-> "return", to |-> "", fn |-> "", arg |-> err]

ltop == lstack[Len(lstack)]

\* One statement of the innermost call. A lock().await on the held mutex
\* never completes: nothing of the program runs after it. A guard alive at a
\* return is dropped by it. An Err a callee returned is returned by its
\* caller (`?`), up to main.
Do(s) ==
    LET depth == Len(lstack)
        moved == [lstack EXCEPT ![depth].at = s.to]
    IN CASE s.op = "lock" ->
              IF mutex = 0
              THEN mutex' = depth /\ lstack' = moved /\ UNCHANGED <<blocked, lerr>>
              ELSE blocked' = TRUE /\ UNCHANGED <<mutex, lstack, lerr>>
         [] s.op = "drop" ->
              /\ mutex = depth
              /\ mutex' = 0 /\ lstack' = moved /\ UNCHANGED <<blocked, lerr>>
         [] s.op = "goto" ->
              lstack' = moved /\ UNCHANGED <<mutex, blocked, lerr>>
         [] s.op = "call" ->
              /\ s.fn = "run_handlers" =>
                    Cardinality({i \in 1..depth : lstack[i].fn = "run_handlers"}) < MaxDepth
              /\ lstack' = Append(moved, [fn |-> s.fn, at |-> "enter", arg |-> s.arg])
              /\ UNCHANGED <<mutex, blocked, lerr>>
         [] s.op = "return" ->
              /\ lstack' = SubSeq(lstack, 1, depth - 1)
              /\ mutex' = IF mutex = depth THEN 0 ELSE mutex
              /\ lerr' = s.arg
              /\ UNCHANGED blocked

\* The innermost call is of fn and takes one of the steps of its statement.
In(fn) == ~blocked /\ lstack # <<>> /\ ltop.fn = fn

Step(steps) ==
    /\ IF lerr
       THEN IF Len(lstack) > 1 THEN Do(Return(TRUE)) ELSE Do(Goto("return"))
       ELSE \E s \in steps : Do(s)
    /\ UNCHANGED <<vars, registry, visitor, cmdlayer, systemd, files>>

LockInit ==
    /\ mutex = 0
    /\ lstack = <<[fn |-> "main", at |-> "enter", arg |-> FALSE]>>
    /\ blocked = FALSE
    /\ lerr = FALSE

\* main: `for play in plays { process_play(..).await?; }`.
main ==
    In("main") /\ ltop.at # "return" /\ Step(
        CASE ltop.at = "enter" -> {Call("process_play", FALSE, "enter"), Goto("return")}
          [] OTHER -> {})

\* process_play: pre_tasks, roles, tasks, the flush, post_tasks.
process_play ==
    In("process_play") /\ Step(
        CASE ltop.at = "enter" -> {Call("process_tasks", TRUE, "roles"), Goto("roles")}
          [] ltop.at = "roles" -> {Call("process_role", FALSE, "roles"), Goto("tasks")}
          [] ltop.at = "tasks" -> {Call("process_tasks", FALSE, "run_handlers"),
                                   Goto("run_handlers")}
          [] ltop.at = "run_handlers" -> {Call("run_handlers", FALSE, "post_tasks")}
          [] ltop.at = "post_tasks" -> {Call("process_tasks", TRUE, "return"), Goto("return")}
          [] ltop.at = "return" -> {Return(FALSE)})

\* process_role: each load_yaml may fail; the guard taken for the defaults is
\* dropped at the end of the `if let` block.
process_role ==
    In("process_role") /\ Step(
        CASE ltop.at = "enter" -> {Lock("defaults"), Goto("handlers"), Return(TRUE)}
          [] ltop.at = "defaults" -> {Drop("handlers")}
          [] ltop.at = "handlers" -> {Call("register_handlers", FALSE, "tasks"), Goto("tasks"),
                                      Return(TRUE)}
          [] ltop.at = "tasks" -> {Call("process_tasks", FALSE, "return"), Goto("return"),
                                   Return(TRUE)}
          [] ltop.at = "return" -> {Return(FALSE)})

\* register_handlers: the guard is taken first and lives to the return.
register_handlers ==
    In("register_handlers") /\ Step(
        CASE ltop.at = "enter" -> {Lock("for")}
          [] ltop.at = "for" -> {Return(FALSE)})

\* process_tasks: the guard of `ctx.lock().await.do_become_user = ..` is dropped
\* at the end of that statement, the guard of each push_back at the end of the
\* loop body.
process_tasks ==
    In("process_tasks") /\ Step(
        CASE ltop.at = "enter" -> {Lock("become")}
                                  \cup (IF ltop.arg
                                        THEN {Call("run_handlers", FALSE, "return")}
                                        ELSE {Goto("return")})
          [] ltop.at = "become" -> {Drop("run")}
          [] ltop.at = "run" -> {Call(d.run, FALSE, "notify") : d \in Inventory}
          [] ltop.at = "notify" -> {Lock("push_back"), Goto("enter")}
          [] ltop.at = "push_back" -> {Drop("notify")}
          [] ltop.at = "return" -> {Return(FALSE)})

\* (mutant) the guard taken for the lookup lives while the handler's module runs.
run_handlers_holding ==
    In("run_handlers") /\ Step(
        CASE ltop.at = "enter" -> {Lock("clone")}
          [] ltop.at = "clone" -> {Drop("while"), Drop("return")}
          [] ltop.at = "while" -> {Lock("get"), Lock("clear")}
          [] ltop.at = "get" -> {Goto("run"), Return(TRUE)}
          [] ltop.at = "run" -> {Call(d.run, FALSE, "while") : d \in Inventory}
          [] ltop.at = "clear" -> {Drop("return")}
          [] ltop.at = "return" -> {Return(FALSE)})

\* run_handlers: the guard of the clone is dropped at the end of its block
\* (the snapshot is empty, or not); each pop_front is followed by the block of
\* the lookup, which drops its guard or returns Err; then the module runs;
\* after the loop the guard taken for clear() lives to the end of the `if`.
run_handlers ==
    In("run_handlers") /\ Step(
        CASE ltop.at = "enter" -> {Lock("clone")}
          [] ltop.at = "clone" -> {Drop("while"), Drop("return")}
          [] ltop.at = "while" -> {Lock("get"), Lock("clear")}
          [] ltop.at = "get" -> {Drop("run"), Return(TRUE)}
          [] ltop.at = "run" -> {Call(d.run, FALSE, "while") : d \in Inventory}
          [] ltop.at = "clear" -> {Drop("return")}
          [] ltop.at = "return" -> {Return(FALSE)})

\* run_command_opts: spawn() fails, or the child is waited for and its status
\* is a success or not.
run_command_opts ==
    In("run_command_opts") /\ Step(
        CASE ltop.at = "enter" -> {Goto("wait"), Return(TRUE)}
          [] ltop.at = "wait" -> {Return(FALSE), Return(TRUE)})

\* StructuredTask::run of each module: deserialize may fail, then run_structured.
SetFactTask ==
    In("SetFactTask::run") /\ Step(
        CASE ltop.at = "enter" -> {Lock("insert"), Return(TRUE)}
          [] ltop.at = "insert" -> {Return(FALSE)})

ShellTask ==
    In("ShellTask::run") /\ Step(
        CASE ltop.at = "enter" -> {Lock("run_command"), Return(TRUE)}
          [] ltop.at = "run_command" -> {Call("run_command_opts", FALSE, "return")}
          [] ltop.at = "return" -> {Return(FALSE)})

Curl ==
    In("Curl::run") /\ Step(
        CASE ltop.at = "enter" -> {Lock("run_command"), Return(TRUE)}
          [] ltop.at = "run_command" -> {Call("run_command_opts", FALSE, "return")}
          [] ltop.at = "return" -> {Return(FALSE)})

\* copy: the guard is taken before the source is resolved and opened.
CopyTask ==
    In("CopyTask::run") /\ Step(
        CASE ltop.at = "enter" -> {Lock("stdin"), Return(TRUE)}
          [] ltop.at = "stdin" -> {Goto("run_command"), Return(TRUE)}
          [] ltop.at = "run_command" -> {Call("run_command_opts", FALSE, "return")}
          [] ltop.at = "return" -> {Return(FALSE)})

\* template: the guard is taken before the template is read and rendered.
TemplateTask ==
    In("TemplateTask::run") /\ Step(
        CASE ltop.at = "enter" -> {Lock("render"), Return(TRUE)}
          [] ltop.at = "render" -> {Goto("run_command"), Return(TRUE)}
          [] ltop.at = "run_command" -> {Call("run_command_opts", FALSE, "return")}
          [] ltop.at = "return" -> {Return(FALSE)})

\* systemd: each of the four `if` blocks takes the guard right before its
\* run_command and drops it at the end of the block; the last three return
\* Err when name is None.
SystemdTask ==
    In("SystemdTask::run") /\ Step(
        CASE ltop.at = "enter" -> {Lock("daemon_reload"), Goto("enabled"), Return(TRUE)}
          [] ltop.at = "daemon_reload" -> {Call("run_command_opts", FALSE, "daemon_reloaded")}
          [] ltop.at = "daemon_reloaded" -> {Drop("enabled")}
          [] ltop.at = "enabled" -> {Lock("enable"), Goto("masked"), Return(TRUE)}
          [] ltop.at = "enable" -> {Call("run_command_opts", FALSE, "enable_done")}
          [] ltop.at = "enable_done" -> {Drop("masked")}
          [] ltop.at = "masked" -> {Lock("mask"), Goto("state"), Return(TRUE)}
          [] ltop.at = "mask" -> {Call("run_command_opts", FALSE, "mask_done")}
          [] ltop.at = "mask_done" -> {Drop("state")}
          [] ltop.at = "state" -> {Lock("state_change"), Goto("return"), Return(TRUE)}
          [] ltop.at = "state_change" -> {Call("run_command_opts", FALSE, "state_done")}
          [] ltop.at = "state_done" -> {Drop("return")}
          [] ltop.at = "return" -> {Return(FALSE)})

\* meta: flush_handlers calls run_handlers; noop and the logged actions do
\* nothing; reset_connection holds a guard for one statement; Unknown is Err.
MetaTask ==
    In("MetaTask::run") /\ Step(
        CASE ltop.at = "enter" -> {Call("run_handlers", FALSE, "return"), Goto("return"),
                                   Lock("reset"), Return(TRUE)}
          [] ltop.at = "reset" -> {Drop("return")}
          [] ltop.at = "return" -> {Return(FALSE)})

ImportTasks ==
    In("ImportTasks::run") /\ Step(
        CASE ltop.at = "enter" -> {Return(FALSE)})

LockNext ==
    \/ main \/ process_play \/ process_role \/ register_handlers
    \/ process_tasks \/ run_handlers \/ run_command_opts
    \/ SetFactTask \/ ShellTask \/ Curl \/ CopyTask \/ TemplateTask
    \/ SystemdTask \/ MetaTask \/ ImportTasks

\* ------------------------------------------------------------ module systemd
\* Option<bool>::unwrap_or_default().
UnwrapOrDefault(o) == o.some /\ o.val

\* SystemdTask, as deserialized: every field is an Option.
SystemdTasks ==
    [daemon_reload : Option(BOOLEAN),
     enabled : Option(BOOLEAN),
     force : Option({TRUE}),
     masked : Option(BOOLEAN),
     name : Option({"svc"}),
     no_block : Option({TRUE}),
     scope : Option({"system", "user", "global"}),
     state : Option({"reloaded", "restarted", "started", "stopped"})]

\* TaskResult: Ok(None), or Err with its message.
TaskOk == [kind |-> "ok", msg |-> ""]
TaskErr(msg) == [kind |-> "error", msg |-> msg]

\* `let scope_flag = match &self.scope`.
ScopeFlag(task) ==
    IF task.scope = Some("global") THEN "--global"
    ELSE IF task.scope = Some("user") THEN "--user"
    ELSE "--system"

\* The command of the daemon_reload block.
DaemonReloadCommand(task) == <<"systemctl", ScopeFlag(task), "daemon-reload">>

\* The command of the `if let Some(enabled)` block.
EnableCommand(task) ==
    <<"systemctl", ScopeFlag(task)>>
    \o <<IF task.enabled.val THEN "enable" ELSE "disable">>
    \o (IF UnwrapOrDefault(task.force) THEN <<"--force">> ELSE <<>>)
    \o <<task.name.val>>

\* (mutant) the mask command takes --no-block too.
MaskCommandNoBlock(task) ==
    <<"systemctl", ScopeFlag(task)>>
    \o <<IF task.masked.val THEN "mask" ELSE "unmask">>
    \o (IF UnwrapOrDefault(task.force) THEN <<"--force">> ELSE <<>>)
    \o (IF UnwrapOrDefault(task.no_block) THEN <<"--no-block">> ELSE <<>>)
    \o <<task.name.val>>

\* The command of the `if let Some(mask)` block.
MaskCommand(task) ==
    <<"systemctl", ScopeFlag(task)>>
    \o <<IF task.masked.val THEN "mask" ELSE "unmask">>
    \o (IF UnwrapOrDefault(task.force) THEN <<"--force">> ELSE <<>>)
    \o <<task.name.val>>

\* The command of the `if let Some(state)` block.
StateCommand(task) ==
    <<"systemctl", ScopeFlag(task)>>
    \o <<CASE task.state.val = "reloaded" -> "reload"
           [] task.state.val = "restarted" -> "restart"
           [] task.state.val = "started" -> "start"
           [] task.state.val = "stopped" -> "stop">>
    \o (IF UnwrapOrDefault(task.no_block) THEN <<"--no-block">> ELSE <<>>)
    \o <<task.name.val>>

\* (mutant) a task without name goes on as if it had the empty name.
RequireNameLax(task) == Absent

\* `self.name.as_ref().ok_or_eyre("systemd service name is required")?`: the
\* Err returned when name is None.
RequireName(task) ==
    IF task.name.some THEN Absent ELSE Some(TaskErr("systemd service name is required"))

SystemdIdle ==
    [task |-> CHOOSE t \in SystemdTasks : TRUE, at |-> "idle", emitted |-> <<>>,
     result |-> NoResult]

SystemdInit == systemd = SystemdIdle

\* `ctx.run_command(None, command)?` at the end of a block: the command is run,
\* and the block is left for the next one, or run_structured returns the Err.
SystemdRunCommand(cmd, next) ==
    \E ok \in BOOLEAN :
        systemd' = IF ok
                   THEN [systemd EXCEPT !.emitted = Append(@, cmd), !.at = next,
                                        !.result = IF next = "returned" THEN TaskOk ELSE @]
                   ELSE [systemd EXCEPT !.emitted = Append(@, cmd), !.at = "returned",
                                        !.result = TaskErr("unsuccessful run")]

\* A block whose `if` does not hold is skipped.
SystemdSkip(next) ==
    systemd' = [systemd EXCEPT !.at = next,
                               !.result = IF next = "returned" THEN TaskOk ELSE @]

\* A block that needs the name: Err when it is None, else its command is run.
SystemdNamed(cmd, next) ==
    IF RequireName(systemd.task).some
    THEN systemd' = [systemd EXCEPT !.at = "returned",
                                    !.result = RequireName(systemd.task).val]
    ELSE SystemdRunCommand(cmd, next)

SystemdUnchanged == UNCHANGED <<vars, registry, visitor, cmdlayer, locks, files>>

\* SystemdTask::run_structured is entered with the deserialized task.
SystemdRunStructured ==
    /\ systemd.at \in {"idle", "returned"}
    /\ systemd' = [systemd EXCEPT !.at = "daemon_reload", !.emitted = <<>>,
                                  !.result = NoResult]
    /\ SystemdUnchanged

\* (mutant) a task that needs its name is checked for it before daemon-reload.
SystemdDaemonReloadNamed ==
    /\ systemd.at = "daemon_reload"
    /\ IF UnwrapOrDefault(systemd.task.daemon_reload)
       THEN IF systemd.task.enabled.some \/ systemd.task.masked.some
               \/ systemd.task.state.some
            THEN SystemdNamed(DaemonReloadCommand(systemd.task), "enabled")
            ELSE SystemdRunCommand(DaemonReloadCommand(systemd.task), "enabled")
       ELSE SystemdSkip("enabled")
    /\ SystemdUnchanged

\* `if self.daemon_reload.unwrap_or_default() { .. }`.
SystemdDaemonReload ==
    /\ systemd.at = "daemon_reload"
    /\ IF UnwrapOrDefault(systemd.task.daemon_reload)
       THEN SystemdRunCommand(DaemonReloadCommand(systemd.task), "enabled")
       ELSE SystemdSkip("enabled")
    /\ SystemdUnchanged

\* `if let Some(enabled) = self.enabled { .. }`.
SystemdEnabled ==
    /\ systemd.at = "enabled"
    /\ IF systemd.task.enabled.some
       THEN SystemdNamed(EnableCommand(systemd.task), "masked")
       ELSE SystemdSkip("masked")
    /\ SystemdUnchanged

\* `if let Some(mask) = self.masked { .. }`.
SystemdMasked ==
    /\ systemd.at = "masked"
    /\ IF systemd.task.masked.some
       THEN SystemdNamed(MaskCommand(systemd.task), "state")
       ELSE SystemdSkip("state")
    /\ SystemdUnchanged

\* `if let Some(state) = self.state.as_ref() { .. }`, and `Ok(None)`.
SystemdState ==
    /\ systemd.at = "state"
    /\ IF systemd.task.state.some
       THEN SystemdNamed(StateCommand(systemd.task), "returned")
       ELSE SystemdSkip("returned")
    /\ SystemdUnchanged

SystemdNext ==
    \/ SystemdRunStructured \/ SystemdDaemonReload \/ SystemdEnabled
    \/ SystemdMasked \/ SystemdState

\* ------------------------------------------------------- the local files
\* A path is the sequence of its components; the root is the component "/".
\* PathBuf::default() is the empty path.
DefaultPath == <<>>
IsRelative(path) == path = <<>> \/ Head(path) # "/"

\* Path::join: an absolute path replaces the base.
Join(base, path) == IF IsRelative(path) THEN base \o path ELSE path

\* main: the directory of the playbook, `args.play.parent()`.
PlaybookDir == <<"/", "p">>

\* process_play: `basedir.join("roles").join(role.name())`.
RoleBasedir(basedir, r) == Join(Join(basedir, <<"roles">>), <<r>>)

\* VecDeque::push_front.
PushFront(q, x) == <<x>> \o q

\* (mutant) the directories are taken front to back, so the last comes first.
RECURSIVE PrependDirsForward(_, _, _, _)
PrependDirsForward(paths, dirs, subdirectory, name) ==
    IF dirs = <<>> THEN paths
    ELSE PrependDirsForward(
             PushFront(PushFront(paths, Join(Head(dirs), name)),
                       Join(Join(Head(dirs), subdirectory), name)),
             Tail(dirs), subdirectory, name)

\* resolve_local_file: `for directory in ctx.resource_dirs.iter().rev()`, two
\* push_front each.
RECURSIVE PrependDirs(_, _, _, _)
PrependDirs(paths, dirs, subdirectory, name) ==
    IF dirs = <<>> THEN paths
    ELSE LET directory == dirs[Len(dirs)]
         IN PrependDirs(
                PushFront(PushFront(paths, Join(directory, name)),
                          Join(Join(directory, subdirectory), name)),
                SubSeq(dirs, 1, Len(dirs) - 1), subdirectory, name)

\* resolve_local_file: possible_paths, as the loop over it finds it.
PossiblePaths(basedir, dirs, subdirectory, name) ==
    IF IsRelative(name)
    THEN PrependDirs(
             PushFront(PushFront(<<>>, Join(Join(basedir, subdirectory), name)),
                       Join(basedir, name)),
             dirs, subdirectory, name)
    ELSE PushFront(<<>>, name)

\* `for path in possible_paths`: the first path that `std::fs::metadata` finds,
\* else the Err.
RECURSIVE FirstExisting(_, _)
FirstExisting(paths, fs) ==
    IF paths = <<>> THEN [ok |-> FALSE, path |-> <<>>, msg |-> "could not find file specified as"]
    ELSE IF Head(paths) \in fs THEN [ok |-> TRUE, path |-> Head(paths), msg |-> ""]
    ELSE FirstExisting(Tail(paths), fs)

\* resolve_local_file(ctx, subdirectory, name), on the files fs.
ResolveLocalFileOf(basedir, dirs, subdirectory, name, fs) ==
    FirstExisting(PossiblePaths(basedir, dirs, subdirectory, name), fs)

\* The contexts resolve_local_file is given, the names it is asked for and
\* the files there may be.
Basedirs == {DefaultPath, PlaybookDir}
DirLists ==
    LET d1 == RoleBasedir(PlaybookDir, "r1")
        d2 == RoleBasedir(PlaybookDir, "r2")
    IN {<<>>, <<d1>>, <<d1, d2>>, <<d2, d1>>}
Subdirectories == {<<"files">>, <<"templates">>}
FileNames == {<<"hello.txt">>, <<"/", "etc", "hello.txt">>}
FilesOf(basedir, dirs, subdirectory, name) ==
    SUBSET ({Join(Join(b, s), name) : b \in {basedir} \cup Range(dirs),
                                     s \in {<<>>, subdirectory}})

NoResolved ==
    [subdirectory |-> <<>>, name |-> <<>>, fs |-> {},
     result |-> [ok |-> FALSE, path |-> <<>>, msg |-> ""]]

\* TaskContextInner::default(): both fields empty.
FilesInit ==
    /\ play_basedir = DefaultPath
    /\ resource_dirs = <<>>
    /\ resolved = NoResolved

\* copy and template call resolve_local_file(&ctx, "files" | "templates", file).
ResolveLocalFile ==
    /\ \E subdirectory \in Subdirectories, name \in FileNames :
         \E fs \in FilesOf(play_basedir, resource_dirs, subdirectory, name) :
            resolved' = [subdirectory |-> subdirectory, name |-> name, fs |-> fs,
                         result |-> ResolveLocalFileOf(play_basedir, resource_dirs,
                                                       subdirectory, name, fs)]
    /\ UNCHANGED <<vars, registry, visitor, cmdlayer, locks, systemd, play_basedir,
                   resource_dirs>>

\* -------------------------------------------------------------------- Init
Init ==
    /\ EngineInit
    /\ RegistryInit
    /\ VisitorInit
    /\ CommandInit
    /\ LockInit
    /\ SystemdInit
    /\ FilesInit



\* ------------------------------------------------------------------- main
\* (mutant) the next play is run on the context of the play before it.
MainNextPlaySameContext ==
    /\ Running /\ pc = "main"
    /\ pc' = "pre_tasks"
    /\ role' = None
    /\ phase' = "start" /\ owed' = ZeroOwed /\ ranAny' = FALSE
    /\ lateNames' = {} /\ inflight' = 0 /\ unpushed' = 0 /\ loaded' = Absent
    /\ UNCHANGED <<ctx, ptv, hstack, error>>
    /\ UNCHANGED layers

\* main: `for play in plays { process_play(play_basedir, play).await?; }` takes
\* the next play, and process_play's `let ctx: TaskContext = Default::default();`.
MainNextPlay ==
    /\ Running /\ pc = "main"
    /\ pc' = "pre_tasks"
    /\ role' = None
    /\ facts' = DefaultFacts
    /\ do_become_user' = None
    /\ pending_handlers' = <<>>
    /\ known_handlers' = DefaultKnownHandlers
    /\ phase' = "start" /\ owed' = ZeroOwed /\ ranAny' = FALSE
    /\ lateNames' = {} /\ inflight' = 0 /\ unpushed' = 0 /\ loaded' = Absent
    /\ play_basedir' = DefaultPath
    /\ resource_dirs' = <<>>
    /\ UNCHANGED <<ptv, hstack, error>>
    /\ UNCHANGED <<registry, visitor, cmdlayer, locks, systemd, resolved>>

\* main: no play is left, `Ok(())`.
MainExit ==
    /\ Running /\ pc = "main"
    /\ pc' = "exit"
    /\ UNCHANGED <<role, ctx, ptv, hstack, error, obs>>
    /\ UNCHANGED layers

\* ---------------------------------------------------------- process_tasks
\* (mutant) the pre_tasks are not followed by a flush.
FlushAfterPostOnly(at) == at = "post_tasks"

\* The flush_handlers argument of the process_tasks call at each call site:
\* true for pre_tasks and post_tasks, false for a role's tasks and the tasks.
FlushAfter(at) == at \in {"pre_tasks", "post_tasks"}

\* The call process_tasks(ctx, tasks, role, flush): the loop is before its first task.
CallProcessTasks(flush) ==
    /\ tflush' = flush /\ tpc' = "loop"
    /\ UNCHANGED <<pc, cur>>

\* (mutant) process_play goes from the tasks to the post_tasks, without
\* its run_handlers call.
AfterTasksNoFlush(at) ==
    CASE at = "pre_tasks" -> "roles"
      [] at = "role_tasks" -> "roles"
      [] at = "tasks" -> "post_tasks"
      [] at = "post_tasks" -> "main"

\* Where process_play / process_role continue when process_tasks returns Ok
\* (leaving "post_tasks", process_play returns Ok to main).
AfterTasks(at) ==
    CASE at = "pre_tasks" -> "roles"
      [] at = "role_tasks" -> "roles"
      [] at = "tasks" -> "flush"
      [] at = "post_tasks" -> "main"

\* process_tasks returns Ok(()).
ReturnFromProcessTasks ==
    /\ tflush' = FALSE /\ tpc' = "idle"
    /\ pc' = AfterTasks(pc)
    /\ UNCHANGED cur

\* (mutant) the local queue is the clone without its first entry.
FrameRest(pending) ==
    [queue |-> IF pending = <<>> THEN pending ELSE Tail(pending), snapshot |-> pending,
     dispatched |-> <<>>, hpc |-> "loop", handler |-> NoHandler]

\* A new run_handlers call: `ctx.pending_handlers.clone()` is its local queue.
Frame(pending) ==
    [queue |-> pending, snapshot |-> pending, dispatched |-> <<>>,
     hpc |-> "loop", handler |-> NoHandler]

top == hstack[Len(hstack)]

\* (mutant) a task whose when list holds "false" is skipped.
TaskRunsWhen(task) == "false" \notin {task.when[i] : i \in 1..Len(task.when)}

\* process_tasks: between `for task in tasks` and `(task_info.run)(..)` no
\* statement tests the task, so every task of the list is run.
TaskRuns(task) == TRUE

\* process_tasks, `for task in tasks`: the next task is taken, do_become_user is
\* written and the task's module is invoked.
TaskStartOf(TS) ==
    /\ Running /\ tpc = "loop"
    /\ \E t \in TS :
          /\ Len(pending_handlers) + Len(t.notify) <= MaxPending
          /\ cur' = t
          /\ do_become_user' = BecomeUser(t)
          /\ tpc' = IF TaskRuns(t) THEN "module" ELSE "loop"
    /\ phase' = pc
    /\ inflight' = inflight + 1
    /\ UNCHANGED <<pc, role, facts, pending_handlers, known_handlers, tflush, hstack,
                   error, owed, ranAny, lateNames, unpushed, loaded>>
    /\ UNCHANGED layers

TaskStart == TaskStartOf(TaskSet)

\* (mutant) the loop takes the next task without pushing the notify entries.
AfterModuleNextTask == "loop"

\* The statement process_tasks is at once the module has returned Ok: the
\* `for notify in task.notify` loop.
AfterModule == "notify"

\* The task's module returns Ok.
TaskModuleReturns ==
    /\ Running /\ tpc = "module"
    /\ \E o \in ModuleRun(cur.task_id, cur.args, facts) :
          /\ o.kind = "ok"
          /\ facts' = o.facts
    /\ tpc' = AfterModule
    /\ inflight' = inflight - 1
    /\ unpushed' = unpushed + 1
    /\ UNCHANGED <<pc, role, do_become_user, pending_handlers, known_handlers, cur,
                   tflush, hstack, error, phase, owed, ranAny, lateNames, loaded>>
    /\ UNCHANGED layers

\* The task's module returns Err: `.await?` returns it from process_tasks.
TaskModuleFails ==
    /\ Running /\ tpc = "module"
    /\ \E o \in ModuleRun(cur.task_id, cur.args, facts) :
          /\ o.kind = "err"
          /\ error' = o.err
    /\ UNCHANGED <<pc, role, ctx, ptv, hstack, obs>>
    /\ UNCHANGED layers

\* The task is meta flush_handlers: its module calls run_handlers.
TaskMetaFlush ==
    /\ Running /\ tpc = "module"
    /\ \E o \in ModuleRun(cur.task_id, cur.args, facts) : o.kind = "flush"
    /\ Len(hstack) < MaxDepth
    /\ hstack' = Append(hstack, Frame(pending_handlers))
    /\ tpc' = "module_flush"
    /\ UNCHANGED <<pc, role, ctx, cur, tflush, error, obs>>
    /\ UNCHANGED layers

\* After the module returned: each entry of task.notify is pushed, and the loop
\* goes on to the next task.
TaskNotify ==
    /\ Running /\ tpc = "notify"
    /\ pending_handlers' = PushNotify(pending_handlers, cur.notify)
    /\ tpc' = "loop"
    /\ cur' = NoTask
    /\ owed' = Bump(owed, cur.notify, 1)
    /\ lateNames' = lateNames \cup (Range(cur.notify) \ DOMAIN known_handlers)
    /\ unpushed' = unpushed - 1
    /\ UNCHANGED <<pc, role, facts, do_become_user, known_handlers, tflush, hstack,
                   error, phase, ranAny, inflight, loaded>>
    /\ UNCHANGED layers

\* The label of the flush that closes a task list.
ClosingFlush(at) == IF at = "pre_tasks" THEN "pre_flush" ELSE "post_flush"

\* The loop is over and flush_handlers is set: `run_handlers(ctx).await?`.
TasksEndFlush ==
    /\ Running /\ tpc = "loop" /\ tflush
    /\ hstack' = Append(hstack, Frame(pending_handlers))
    /\ tpc' = "endflush"
    /\ phase' = ClosingFlush(pc)
    /\ UNCHANGED <<pc, role, ctx, cur, tflush, error, owed, ranAny, lateNames,
                   inflight, unpushed, loaded>>
    /\ UNCHANGED layers

\* The loop is over and flush_handlers is not set: process_tasks returns.
TasksEndReturn ==
    /\ Running /\ tpc = "loop" /\ ~tflush
    /\ ReturnFromProcessTasks
    /\ UNCHANGED <<role, ctx, hstack, error, obs>>
    /\ UNCHANGED layers

\* ----------------------------------------------------------- process_play
\* A field of Play that is None: the `if let Some(..)` is skipped.
SkipTasks ==
    /\ pc' = AfterTasks(pc)
    /\ UNCHANGED ptv

\* process_play: `if let Some(pre_tasks) = play.pre_tasks { process_tasks(.., true) }`.
PreTasks ==
    /\ Running /\ pc = "pre_tasks" /\ tpc = "idle"
    /\ \E some \in BOOLEAN : IF some THEN CallProcessTasks(FlushAfter(pc)) ELSE SkipTasks
    /\ UNCHANGED <<role, ctx, hstack, error, obs>>
    /\ UNCHANGED layers

\* process_play: `for role in roles`, the next role; process_role is entered.
RoleEnter ==
    /\ Running /\ pc = "roles"
    /\ \E r \in RoleNames : role' = r
    /\ pc' = "role_defaults"
    /\ UNCHANGED <<ctx, ptv, hstack, error, obs>>
    /\ UNCHANGED layers

\* process_play: no role is left (or play.roles is None).
RolesDone ==
    /\ Running /\ pc = "roles"
    /\ pc' = "tasks"
    /\ role' = None
    /\ UNCHANGED <<ctx, ptv, hstack, error, obs>>
    /\ UNCHANGED layers

\* process_role: defaults/main.yml is loaded into facts.
RoleDefaultsOf(DS) ==
    /\ Running /\ pc = "role_defaults"
    /\ \E d \in Option(DS) :
          /\ facts' = IF d.some THEN LoadDefaults(facts, d.val) ELSE facts
          /\ loaded' = d
    /\ pc' = "role_handlers"
    /\ phase' = "defaults"
    /\ UNCHANGED <<role, do_become_user, pending_handlers, known_handlers, ptv, hstack,
                   error, owed, ranAny, lateNames, inflight, unpushed>>
    /\ UNCHANGED layers

\* process_role: handlers/main.yml is loaded and registered.
RoleDefaults == RoleDefaultsOf({})

RoleHandlersOf(HS) ==
    /\ Running /\ pc = "role_handlers"
    /\ \E hs \in Option(HS) :
          /\ known_handlers' = IF hs.some
                               THEN RegisterHandlers(known_handlers, hs.val, role)
                               ELSE known_handlers
          /\ loaded' = hs
    /\ pc' = "role_tasks"
    /\ phase' = "handlers"
    /\ UNCHANGED <<role, facts, do_become_user, pending_handlers, ptv, hstack, error,
                   owed, ranAny, lateNames, inflight, unpushed>>
    /\ UNCHANGED layers

RoleHandlers == RoleHandlersOf(HandlerLists)

\* process_role: tasks/main.yml is loaded and run, `process_tasks(.., false)`.
RoleTasks ==
    /\ Running /\ pc = "role_tasks" /\ tpc = "idle"
    /\ \E some \in BOOLEAN : IF some THEN CallProcessTasks(FlushAfter(pc)) ELSE SkipTasks
    /\ UNCHANGED <<role, ctx, hstack, error, obs>>
    /\ UNCHANGED layers

\* process_play: `if let Some(tasks) = play.tasks { process_tasks(.., false) }`.
Tasks ==
    /\ Running /\ pc = "tasks" /\ tpc = "idle"
    /\ \E some \in BOOLEAN : IF some THEN CallProcessTasks(FlushAfter(pc)) ELSE SkipTasks
    /\ UNCHANGED <<role, ctx, hstack, error, obs>>
    /\ UNCHANGED layers

\* process_play: `run_handlers(Arc::clone(&ctx)).await?`.
PlayFlush ==
    /\ Running /\ pc = "flush"
    /\ hstack' = Append(hstack, Frame(pending_handlers))
    /\ pc' = "flushing"
    /\ phase' = "flush"
    /\ UNCHANGED <<role, ctx, ptv, error, owed, ranAny, lateNames, inflight, unpushed,
                   loaded>>
    /\ UNCHANGED layers

\* process_play: `if let Some(post_tasks) = play.post_tasks { process_tasks(.., true) }`.
PostTasks ==
    /\ Running /\ pc = "post_tasks" /\ tpc = "idle"
    /\ \E some \in BOOLEAN : IF some THEN CallProcessTasks(FlushAfter(pc)) ELSE SkipTasks
    /\ UNCHANGED <<role, ctx, hstack, error, obs>>
    /\ UNCHANGED layers

\* ----------------------------------------------------------- run_handlers
SetTop(f) == [hstack EXCEPT ![Len(hstack)] = f]
Last(q) == q[Len(q)]

\* `while let Some(handler_name) = pending_handlers.pop_front()`: the name is a
\* key of known_handlers, and the handler's module is invoked with its args.
HandlerDispatch ==
    /\ Running /\ hstack # <<>> /\ top.hpc = "loop" /\ top.queue # <<>>
    /\ LET p == PopFront(top.queue)
           h == Lookup(known_handlers, p[1])
       IN /\ h.some
          /\ hstack' = SetTop([top EXCEPT !.queue = p[2],
                                          !.hpc = "module",
                                          !.handler = h.val,
                                          !.dispatched = Append(@, p[1])])
    /\ UNCHANGED <<pc, role, ctx, ptv, error, obs>>
    /\ UNCHANGED layers

\* The popped name is no key of known_handlers:
\* `.ok_or_else(|| eyre!("Handler '{}' is not declared", handler_name))?`.
HandlerUndeclared ==
    /\ Running /\ hstack # <<>> /\ top.hpc = "loop" /\ top.queue # <<>>
    /\ LET p == PopFront(top.queue)
       IN /\ ~Lookup(known_handlers, p[1]).some
          /\ hstack' = SetTop([top EXCEPT !.queue = p[2]])
          /\ error' = Err("Handler is not declared", p[1])
    /\ UNCHANGED <<pc, role, ctx, ptv, obs>>
    /\ UNCHANGED layers

\* The handler's module returns Ok.
HandlerModuleReturns ==
    /\ Running /\ hstack # <<>> /\ top.hpc = "module"
    /\ \E o \in ModuleRun(top.handler.task_id, top.handler.args, facts) :
          /\ o.kind = "ok"
          /\ facts' = o.facts
    /\ hstack' = SetTop([top EXCEPT !.hpc = "loop", !.handler = NoHandler])
    /\ owed' = Bump(owed, <<Last(top.dispatched)>>, -1)
    /\ ranAny' = TRUE
    /\ UNCHANGED <<pc, role, do_become_user, pending_handlers, known_handlers, ptv,
                   error, phase, lateNames, inflight, unpushed, loaded>>
    /\ UNCHANGED layers

\* The handler's module returns Err: `.await?` returns it from run_handlers.
HandlerModuleFails ==
    /\ Running /\ hstack # <<>> /\ top.hpc = "module"
    /\ \E o \in ModuleRun(top.handler.task_id, top.handler.args, facts) :
          /\ o.kind = "err"
          /\ error' = o.err
    /\ UNCHANGED <<pc, role, ctx, ptv, hstack, obs>>
    /\ UNCHANGED layers

\* The handler is meta flush_handlers: its module calls run_handlers again.
HandlerMetaFlush ==
    /\ Running /\ hstack # <<>> /\ top.hpc = "module"
    /\ \E o \in ModuleRun(top.handler.task_id, top.handler.args, facts) : o.kind = "flush"
    /\ Len(hstack) < MaxDepth
    /\ hstack' = Append(SetTop([top EXCEPT !.hpc = "module_flush"]),
                        Frame(pending_handlers))
    /\ UNCHANGED <<pc, role, ctx, ptv, error, obs>>
    /\ UNCHANGED layers

\* The local queue is drained: `ctx.pending_handlers.clear()` if the snapshot
\* was not empty, and run_handlers returns Ok(()) to its caller: the module of
\* the handler below, process_tasks' closing flush, the task meta
\* flush_handlers, or process_play.
RunHandlersEnd ==
    /\ Running /\ hstack # <<>> /\ top.hpc = "loop" /\ top.queue = <<>>
    /\ pending_handlers' = IF top.snapshot # <<>> THEN <<>> ELSE pending_handlers
    /\ lateNames' = IF top.snapshot # <<>> THEN {} ELSE lateNames
    /\ IF Len(hstack) > 1
       THEN LET below == hstack[Len(hstack) - 1]
            IN /\ hstack' = Append(SubSeq(hstack, 1, Len(hstack) - 2),
                                   [below EXCEPT !.hpc = "loop", !.handler = NoHandler])
               /\ owed' = Bump(owed, <<Last(below.dispatched)>>, -1)
               /\ ranAny' = TRUE
               /\ UNCHANGED <<pc, ptv, phase, inflight, unpushed>>
       ELSE /\ hstack' = <<>>
            /\ UNCHANGED <<owed, ranAny>>
            /\ IF tpc = "endflush"
               THEN /\ ReturnFromProcessTasks
                    /\ phase' = IF pc = "pre_tasks" THEN "pre_flushed" ELSE "post_flushed"
                    /\ UNCHANGED <<inflight, unpushed>>
               ELSE IF tpc = "module_flush"
               THEN /\ tpc' = AfterModule
                    /\ inflight' = inflight - 1
                    /\ unpushed' = unpushed + 1
                    /\ UNCHANGED <<pc, cur, tflush, phase>>
               ELSE /\ pc' = "post_tasks"
                    /\ phase' = "flushed"
                    /\ UNCHANGED <<ptv, inflight, unpushed>>
    /\ UNCHANGED <<role, facts, do_become_user, known_handlers, error, loaded>>
    /\ UNCHANGED layers

\* -------------------------------------------------------------------- Next
Next ==
    \/ MainNextPlay \/ MainExit
    \/ PreTasks \/ RoleEnter \/ RolesDone \/ RoleDefaults \/ RoleHandlers
    \/ RoleTasks \/ Tasks \/ PlayFlush \/ PostTasks
    \/ TaskStart \/ TaskModuleReturns \/ TaskModuleFails \/ TaskMetaFlush
    \/ TaskNotify \/ TasksEndFlush \/ TasksEndReturn
    \/ HandlerDispatch \/ HandlerUndeclared \/ HandlerModuleReturns
    \/ HandlerModuleFails \/ HandlerMetaFlush \/ RunHandlersEnd

Spec == Init /\ [][Next]_vars

\* The engine, when it is not stopped for good: main awaits one future after
\* another on a runtime that polls a ready future, and a finished subprocess
\* is reaped by wait(), so a step that can be taken is taken.
FairSpec == Spec /\ WF_vars(Next)

\* The playbooks in which no task has a notify entry: set_fact, shell and meta
\* tasks, roles with defaults and handlers.
QuietTaskStart == TaskStartOf(QuietTaskSet)
QuietRoleDefaults == RoleDefaultsOf(FactMaps)

QuietNext ==
    \/ MainNextPlay \/ MainExit
    \/ PreTasks \/ RoleEnter \/ RolesDone \/ QuietRoleDefaults \/ RoleHandlers
    \/ RoleTasks \/ Tasks \/ PlayFlush \/ PostTasks
    \/ QuietTaskStart \/ TaskModuleReturns \/ TaskModuleFails \/ TaskMetaFlush
    \/ TaskNotify \/ TasksEndFlush \/ TasksEndReturn
    \/ RunHandlersEnd

QuietSpec == Init /\ [][QuietNext]_vars

\* The playbooks whose tasks have delegate_to, when, register and vars.
DescribedTaskStart == TaskStartOf(TaskDescriptions)

DescribedNext ==
    \/ MainNextPlay \/ MainExit
    \/ PreTasks \/ RoleEnter \/ RolesDone \/ QuietRoleDefaults \/ RoleHandlers
    \/ RoleTasks \/ Tasks \/ PlayFlush \/ PostTasks
    \/ DescribedTaskStart \/ TaskModuleReturns \/ TaskModuleFails \/ TaskMetaFlush
    \/ TaskNotify \/ TasksEndFlush \/ TasksEndReturn
    \/ RunHandlersEnd

DescribedSpec == Init /\ [][DescribedNext]_vars

\* ------------------------------------------------- handlers that run commands
\* The playbooks whose tasks notify a handler: shell tasks with and without
\* become, and shell handlers that have a become and a become_user of their own.
NotifyingTasks ==
    {Task(ShellId, ShellArgs, FALSE, None, <<"h1">>),
     Task(ShellId, ShellArgs, TRUE, "u", <<"h1">>)}

BecomeHandlers ==
    {[name |-> "h1", listen |-> None, task_id |-> ShellId, args |-> ShellArgs,
      become |-> x[1], become_user |-> x[2]] :
        x \in {<<FALSE, None>>, <<TRUE, None>>, <<TRUE, "v">>}}

NotifyingTaskStart == TaskStartOf(NotifyingTasks)
BecomeRoleHandlers == RoleHandlersOf(Seqs(BecomeHandlers, 1))

\* (mutant) the command of a handler is elevated for the handler's own become.
HandlerRunCommandOwnBecome ==
    /\ Running /\ hstack # <<>> /\ top.hpc = "module" /\ top.handler.task_id = ShellId
    /\ child' = ToCommand(Prepared(Elevated(command_target, BecomeUser(top.handler)),
                                   Str("/bin/sh"),
                                   <<Str("-c"), Str(top.handler.args.map.cmd)>>,
                                   Absent, FALSE))
    /\ \E status \in {Exited(0), Exited(1)} : waited' = SpawnAndWait(status)
    /\ UNCHANGED <<vars, registry, visitor, command_target, locks, systemd, files>>

\* ShellTask::run_structured invoked by run_handlers: `ctx.run_command(chdir,
\* vec![executable, "-c", cmd])`, and run_command_opts elevates the clone of
\* the target for ctx.do_become_user, spawns and waits.
HandlerRunCommand ==
    /\ Running /\ hstack # <<>> /\ top.hpc = "module" /\ top.handler.task_id = ShellId
    /\ child' = ToCommand(Prepared(Elevated(command_target, do_become_user),
                                   Str("/bin/sh"),
                                   <<Str("-c"), Str(top.handler.args.map.cmd)>>,
                                   Absent, FALSE))
    /\ \E status \in {Exited(0), Exited(1)} : waited' = SpawnAndWait(status)
    /\ UNCHANGED <<vars, registry, visitor, command_target, locks, systemd, files>>

BecomeNext ==
    \/ MainNextPlay \/ MainExit
    \/ PreTasks \/ RoleEnter \/ RolesDone \/ RoleDefaults \/ BecomeRoleHandlers
    \/ RoleTasks \/ Tasks \/ PlayFlush \/ PostTasks
    \/ NotifyingTaskStart \/ TaskModuleReturns \/ TaskModuleFails
    \/ TaskNotify \/ TasksEndFlush \/ TasksEndReturn
    \/ HandlerDispatch \/ HandlerUndeclared \/ HandlerRunCommand
    \/ HandlerModuleReturns \/ HandlerModuleFails \/ RunHandlersEnd

BecomeSpec == Init /\ [][BecomeNext]_<<vars, layers>>

\* ------------------------------------------ the registry and the parser alone
\* known_tasks() is initialised, then mappings are parsed one after another.
ParserNext == RegistryVisit \/ VisitMap \/ VisitEntry \/ VisitEnd

ParserSpec == Init /\ [][ParserNext]_<<vars, layers>>

\* ---------------------------------------------------- the command layer alone
\* The tasks as far as elevation goes: become and become_user.
BecomeTasks ==
    {Task(ShellId, ShellArgs, b, u, <<>>) : b \in BOOLEAN, u \in {None, "u"}}

\* The context holds any of the targets.
CommandLayerInit ==
    /\ EngineInit /\ RegistryInit /\ VisitorInit /\ LockInit /\ SystemdInit /\ FilesInit
    /\ command_target \in Targets
    /\ child = NoChild
    /\ waited = NoWait

\* process_tasks: the next task is taken and do_become_user is set for it,
\* before its module is invoked.
SetBecomeUser ==
    /\ \E t \in BecomeTasks :
          /\ cur' = t
          /\ do_become_user' = BecomeUser(t)
    /\ child' = NoChild
    /\ waited' = NoWait
    /\ UNCHANGED <<pc, role, facts, pending_handlers, known_handlers, tflush, tpc,
                   hstack, error, obs, registry, visitor, command_target, locks,
                   systemd, files>>

\* The module of the task calls run_command_opts: the command is prepared for
\* the target, elevated for do_become_user, spawned and waited for.
RunCommandOpts ==
    /\ cur # NoTask
    /\ \E c \in Commands, wd \in WorkingDirectories :
          child' = ToCommand(Prepared(Elevated(command_target, do_become_user),
                                      Head(c), Tail(c), wd, FALSE))
    /\ \E status \in ExitStatuses \cup {NotSpawned} : waited' = SpawnAndWait(status)
    /\ UNCHANGED <<vars, registry, visitor, command_target, locks, systemd, files>>

\* A command marked read_only() is turned into a Command.
ReadOnlyToCommand ==
    /\ cur # NoTask
    /\ \E c \in Commands, wd \in WorkingDirectories :
          child' = ToCommand(Prepared(Elevated(command_target, do_become_user),
                                      Head(c), Tail(c), wd, TRUE))
    /\ waited' = NoWait
    /\ UNCHANGED <<vars, registry, visitor, command_target, locks, systemd, files>>

CommandNext == SetBecomeUser \/ RunCommandOpts \/ ReadOnlyToCommand

CommandSpec == CommandLayerInit /\ [][CommandNext]_<<vars, layers>>

\* ------------------------------------------------------- the mutex alone
\* The same program, followed statement by statement as far as the mutex goes.
LockSpec == Init /\ [][LockNext]_<<vars, layers>>

\* ------------------------------------------------------ module systemd alone
\* The task is any of SystemdTasks.
SystemdTaskInit ==
    /\ EngineInit /\ RegistryInit /\ VisitorInit /\ CommandInit /\ LockInit /\ FilesInit
    /\ \E t \in SystemdTasks : systemd = [SystemdIdle EXCEPT !.task = t]

SystemdSpec == SystemdTaskInit /\ [][SystemdNext]_<<vars, layers>>

\* -------------------------------------------------- resolve_local_file alone
\* The function is given a context whose fields hold any of these values.
ResolverInit ==
    /\ EngineInit /\ RegistryInit /\ VisitorInit /\ CommandInit /\ LockInit /\ SystemdInit
    /\ play_basedir \in Basedirs
    /\ resource_dirs \in DirLists
    /\ resolved = NoResolved

ResolverNext == ResolveLocalFile

ResolverSpec == ResolverInit /\ [][ResolverNext]_<<vars, layers>>

\* ================================================================ claims
\* Helpers of the claims below.
Occurrences(q, n) == Cardinality({i \in 1..Len(q) : q[i] = n})
IsPrefix(p, q) == Len(p) <= Len(q) /\ p = SubSeq(q, 1, Len(p))
Frames == {hstack[i] : i \in 1..Len(hstack)}
\* A step of run_handlers' loop that pops a name.
PopStep ==
    /\ hstack # <<>> /\ top.hpc = "loop" /\ top.queue # <<>>
    /\ hstack' # hstack
\* The step of process_tasks that pushes the notify entries of the task.
PushStep == tpc = "notify" /\ tpc' # "notify"

\* ---------------------------------------------------------------- C1
\* C1 (as claimed): within one call of run_handlers no handler name is
\* dispatched more than once, even when it was pushed several times.
C1_AtMostOncePerFlush ==
    \A f \in Frames : \A n \in NotifyNames : Occurrences(f.dispatched, n) <= 1

\* ---------------------------------------------------------------- C2
\* The names a flush has dispatched so far are a prefix of the queue as it
\* was when the flush began.
C2_DispatchOrder == \A f \in Frames : IsPrefix(f.dispatched, f.snapshot)

\* C2: notifications are FIFO. A task's notify entries go to the tail of
\* pending_handlers in the order listed, and nothing else changes the queue
\* but its clearing; a flush starts from the queue as it is, and dispatches
\* the names in exactly that order.
C2_NotifyFifo ==
    [][/\ PushStep => pending_handlers' = pending_handlers \o cur.notify
       /\ pending_handlers' # pending_handlers =>
             \/ PushStep /\ IsPrefix(pending_handlers, pending_handlers')
             \/ pending_handlers' = <<>>
       /\ Len(hstack') > Len(hstack) =>
             hstack'[Len(hstack')].snapshot = pending_handlers
       /\ C2_DispatchOrder']_vars

\* C2 witness: a flush has dispatched two different names, in queue order.
C2_Witness ==
    \E f \in Frames : Len(f.dispatched) = 2 /\ f.dispatched[1] # f.dispatched[2]

\* ---------------------------------------------------------------- C3
\* C3 (as claimed): a name that was no key of known_handlers when the task
\* notified it is never dispatched by the next flush.
C3_UnknownAtNotifyNeverDispatched ==
    \A f \in Frames : Range(f.dispatched) \cap lateNames = {}

\* C3 (amended): a task that notifies a name that is no key completes and
\* queues the name; a flush that pops a name that is no key at that moment
\* fails with an error carrying the name and dispatches nothing more; a
\* name is dispatched only if it is a key when popped.
C3_UndeclaredFailsAtPop ==
    [][/\ PushStep =>
             /\ error' = NoError
             /\ pending_handlers' = pending_handlers \o cur.notify
       /\ PopStep =>
             LET n == Head(top.queue)
                 after == hstack'[Len(hstack)]
             IN /\ Len(hstack') = Len(hstack)
                /\ IF n \in DOMAIN known_handlers
                   THEN /\ after.dispatched = Append(top.dispatched, n)
                        /\ error' = NoError
                   ELSE /\ after.dispatched = top.dispatched
                        /\ error' = Err("Handler is not declared", n)
       /\ error # NoError => hstack' = hstack]_vars

\* C3 witness: a flush has failed on an undeclared name while names were
\* still queued after it.
C3_Witness ==
    /\ error.kind = "Handler is not declared"
    /\ error.name \in lateNames
    /\ hstack # <<>> /\ top.queue # <<>>

\* ---------------------------------------------------------------- C4
\* The marks of a play, and which mark may follow which: "pre_tasks",
\* "role_tasks", "tasks" and "post_tasks" are set when a task of that list
\* starts, "defaults" and "handlers" when a role's file is loaded, "..flush"
\* when a flush begins and "..flushed" when it has finished.
PhaseOrder ==
    ({"start"} \X {"pre_tasks", "pre_flush", "defaults", "tasks", "flush"})
    \cup ({"pre_tasks"} \X {"pre_flush"})
    \cup ({"pre_flush"} \X {"pre_flushed"})
    \cup ({"pre_flushed"} \X {"defaults", "tasks", "flush"})
    \cup ({"defaults"} \X {"handlers"})
    \cup ({"handlers"} \X {"role_tasks", "defaults", "tasks", "flush"})
    \cup ({"role_tasks"} \X {"defaults", "tasks", "flush"})
    \cup ({"tasks"} \X {"flush"})
    \cup ({"flush"} \X {"flushed"})
    \cup ({"flushed"} \X {"post_tasks", "post_flush", "start"})
    \cup ({"post_tasks"} \X {"post_flush"})
    \cup ({"post_flush"} \X {"post_flushed"})
    \cup ({"post_flushed"} \X {"start"})

\* C4: a play goes through pre_tasks, their flush, each role (defaults,
\* handlers, tasks), the tasks, a flush, the post_tasks and their flush in
\* this order, and while a closing flush runs no task is started.
C4_PhaseOrder ==
    [][/\ phase' # phase => <<phase, phase'>> \in PhaseOrder
       /\ phase \in {"pre_flush", "flush", "post_flush"} => inflight' <= inflight
       /\ phase' \in {"pre_flush", "flush", "post_flush"} =>
             hstack' # <<>> \/ error' # NoError]_vars

\* C4 witness: a play with pre_tasks, role tasks, tasks and post_tasks has
\* returned after its last flush, and a handler ran in it.
C4_Witness == pc = "main" /\ phase = "post_flushed" /\ ranAny /\ DOMAIN known_handlers # {}

\* ---------------------------------------------------------------- C5
\* C5: while no error has occurred, the notifications not yet answered by a
\* handler run are exactly the names in pending_handlers (each notification
\* is answered by one run); before the first post_task and when the play
\* has returned nothing is owed and pending_handlers is empty.
C5_NotificationsServed ==
    (error = NoError /\ hstack = <<>>) =>
        /\ \A n \in NotifyNames : owed[n] = Occurrences(pending_handlers, n)
        /\ (tpc = "idle" /\ pc \in {"post_tasks", "main", "exit"}) =>
              pending_handlers = <<>> /\ owed = ZeroOwed

\* C5 witness: a play has returned without error and a handler ran in it.
C5_Witness == pc = "main" /\ error = NoError /\ ranAny /\ phase = "flushed"

\* ---------------------------------------------------------------- C6
\* C6: at most one module invocation of a task is in flight, and a task's
\* module starts only when the module of the task before it has returned,
\* its notify entries have been pushed, and no handler is running.
C6_Sequential ==
    [][/\ inflight' <= 1
       /\ inflight' > inflight =>
             inflight = 0 /\ unpushed = 0 /\ hstack = <<>>
       /\ \A f \in Frames : f.hpc = "module" => inflight' <= inflight]_vars

\* C6 witness: a task's module is in flight after an earlier task has
\* pushed its notify entries.
C6_Witness == inflight = 1 /\ unpushed = 0 /\ pending_handlers # <<>> /\ hstack = <<>>

\* ---------------------------------------------------------------- C7
\* C7: once a module or a flush has returned an error nothing happens any
\* more: no push, no task, no dispatch, no further flush, no later play;
\* and the step that fails pushes nothing and dispatches nothing.
C7_ErrorAborts ==
    [][/\ error = NoError
       /\ error' # NoError =>
             /\ pending_handlers' = pending_handlers
             /\ <<pc, tpc, cur, facts, inflight>>' = <<pc, tpc, cur, facts, inflight>>
             /\ Len(hstack') = Len(hstack)
             /\ \A i \in 1..Len(hstack) :
                   hstack'[i].dispatched = hstack[i].dispatched]_vars

\* C7 witness: the module of a task that has notify entries has failed.
C7_Witness ==
    /\ error.kind = "unsuccessful run"
    /\ tpc = "module" /\ cur.notify # <<>> /\ pending_handlers = <<>>

\* ---------------------------------------------------------------- C8
\* The step of process_role that loads defaults/main.yml.
DefaultsStep == pc = "role_defaults" /\ pc' = "role_handlers"

\* C8: loading a role's defaults keeps the value of every fact that is
\* already present, whether set_fact or an earlier role put it there, and
\* adds exactly the keys that were absent, with the values of the defaults.
C8_DefaultsKeepFacts ==
    [][DefaultsStep =>
          LET d == IF loaded'.some THEN loaded'.val ELSE EmptyMap
          IN /\ DOMAIN facts' = DOMAIN facts \cup DOMAIN d
             /\ \A k \in DOMAIN facts : facts'[k] = facts[k]
             /\ \A k \in DOMAIN d \ DOMAIN facts : facts'[k] = d[k]]_vars

\* C8 witness: defaults were loaded that give another value to a fact that
\* was already present.
C8_Witness ==
    /\ pc = "role_handlers" /\ loaded.some
    /\ \E k \in DOMAIN loaded.val : facts[k] # loaded.val[k]

\* ---------------------------------------------------------------- C9
\* The step in which the module of a set_fact task with a mapping returns.
SetFactStep ==
    /\ tpc = "module" /\ tpc' = "notify"
    /\ cur.task_id = SetFactId /\ cur.args.tag = "mapping"

\* C9: set_fact stores every key of its mapping, overwriting a key that is
\* present, and leaves every other key as it is; on facts that already hold
\* the mapping (set_fact run a second time) it changes nothing.
C9_SetFactOverwrites ==
    [][SetFactStep =>
          LET m == cur.args.map
          IN /\ DOMAIN facts' = DOMAIN facts \cup DOMAIN m
             /\ \A k \in DOMAIN m : facts'[k] = m[k]
             /\ \A k \in DOMAIN facts \ DOMAIN m : facts'[k] = facts[k]
             /\ SetFact(facts', m) = facts'
             /\ (\A k \in DOMAIN m : k \in DOMAIN facts /\ facts[k] = m[k]) =>
                   facts' = facts]_vars

\* C9 witness: set_fact with a non-empty mapping has returned, and facts
\* holds the keys of the mapping next to a key the mapping does not name.
C9_Witness ==
    /\ tpc = "notify" /\ cur.task_id = SetFactId /\ cur.args.tag = "mapping"
    /\ DOMAIN cur.args.map # {}
    /\ DOMAIN facts \ DOMAIN cur.args.map # {}

\* ---------------------------------------------------------------- C10
\* C10: in a playbook without notify, pending_handlers is empty at every
\* flush point, and no flush has anything to dispatch.
C10_NoNotifyNoPending ==
    /\ pending_handlers = <<>>
    /\ \A f \in Frames : f.snapshot = <<>> /\ f.queue = <<>> /\ f.dispatched = <<>>

\* C10 witness: a flush is under way while handlers are registered.
C10_Witness == hstack # <<>> /\ DOMAIN known_handlers # {} /\ tpc = "module_flush"

\* ------------------------------------------------- claims about the parser
\* A step of visit_map's loop: one more entry has been read.
EntryStep == visitor.at = "loop" /\ visitor'.read = visitor.read + 1
\* The generic keys of a task mapping or of a handler mapping.
GenericKeys(expect_handler) ==
    {"name", "become", "become_user", "delegate_to", "when", "register", "vars"}
    \cup (IF expect_handler THEN {"listen"} ELSE {"notify"})
\* The locals of visit_map, without the observations.
LocalsOf(v) == [v EXCEPT !.entry = NoEntry, !.read = 0, !.seen = {}, !.module_keys = <<>>]

\* ---------------------------------------------------------------- C11
\* C11: once known_tasks() is initialised, every fqdn and every alias of a
\* module is a key whose TaskId has the module's fqdn as its name(), get_task
\* finds the module's descriptor for it, and a description that was parsed
\* has a task_id whose descriptor is found and is that of the key used.
C11_RegistryResolves ==
    RegistryReady =>
        /\ \A d \in Inventory : \A k \in {d.fqdn} \cup Range(d.aliases) :
              /\ k \in DOMAIN all_tasks
              /\ TaskIdName(all_tasks[k]) = d.fqdn
              /\ GetTask(TaskIdName(all_tasks[k])) = Some(d)
              /\ GetTask(d.fqdn).val.run = d.run
        /\ visitor.result.kind = "ok" =>
              /\ GetTask(TaskIdName(visitor.task_id.val)).some
              /\ \E d \in Inventory :
                    /\ visitor.module_keys[1] \in {d.fqdn} \cup Range(d.aliases)
                    /\ GetTask(TaskIdName(visitor.task_id.val)).val.run = d.run

\* C11 witness: a task was parsed whose module was named by an alias.
C11_Witness ==
    /\ visitor.result.kind = "ok"
    /\ visitor.task_id.val.variant = "Alias"
    /\ visitor.module_keys = <<"shell">>

\* ---------------------------------------------------------------- C12
\* C12 (as claimed): a mapping with no recognised module key makes the
\* deserialiser return a parse error.
C12_NoModuleKeyIsParseError ==
    (visitor.at = "returned" /\ visitor.module_keys = <<>>) =>
        visitor.result.kind = "error"

\* ---------------------------------------------------------------- C13
\* C13: a second recognised module key, be it another module or the same
\* one under another key, fails with "duplicate task details"; the first
\* one becomes task_id and its value args; a key that is neither generic
\* nor in the registry changes nothing; so a description has exactly one
\* module key, and a mapping read with two has failed with that error.
C13_OneModuleKey ==
    [][/\ EntryStep =>
             LET e == visitor'.entry
             IN /\ (e.key \in DOMAIN all_tasks /\ visitor.module_keys # <<>>) =>
                      visitor'.result = ParseErr("duplicate task details")
                /\ (e.key \in DOMAIN all_tasks /\ visitor.module_keys = <<>>) =>
                      /\ visitor'.task_id = Some(all_tasks[e.key])
                      /\ visitor'.args = Some(e.value)
                      /\ visitor'.result = NoResult
                /\ e.key \notin GenericKeys(visitor.expect_handler) \cup DOMAIN all_tasks =>
                      LocalsOf(visitor') = LocalsOf(visitor)
       /\ visitor'.result.kind = "ok" =>
             /\ Len(visitor'.module_keys) = 1
             /\ visitor'.task_id = Some(all_tasks[visitor'.module_keys[1]])
       /\ Len(visitor'.module_keys) >= 2 =>
             visitor'.result = ParseErr("duplicate task details")]_<<vars, layers>>

\* C13 witness: the same module under its alias and under its fqdn has
\* failed with "duplicate task details".
C13_Witness ==
    /\ visitor.module_keys = <<"shell", "ansible.builtin.shell">>
    /\ visitor.result = ParseErr("duplicate task details")

\* ---------------------------------------------------------------- C14
\* C14: reading a generic key that was read before in the same mapping makes
\* parsing fail, whatever the two values are.
C14_DuplicateGenericKeyFails ==
    [][EntryStep =>
          LET e == visitor'.entry
          IN (e.key \in GenericKeys(visitor.expect_handler) /\ e.key \in visitor'.seen) =>
                /\ visitor'.result.kind = "error"
                /\ visitor'.at = "returned"]_<<vars, layers>>

\* C14 witness: a second become_user has failed the parse.
C14_Witness ==
    /\ visitor.result = ParseErr("duplicate become_user")
    /\ visitor.entry.key = "become_user" /\ "become_user" \in visitor.seen

\* ---------------------------------------------------------------- C15
\* C15: a handler mapping without name and without listen fails, and every
\* HandlerDescription has a name or a listen, so that register_handlers
\* has at least one key for it.
C15_HandlerHasKey ==
    (visitor.at = "returned" /\ visitor.expect_handler) =>
        /\ (~visitor.name.some /\ ~visitor.listen.some) => visitor.result.kind = "error"
        /\ visitor.result.kind = "ok" =>
              /\ visitor.name.some \/ visitor.listen.some
              /\ \A r \in RoleNames :
                    HandlerKeys(RegisteredAs(HandlerDescriptionOf(visitor)), r) # {}

\* C15 witness: a handler mapping with a module key and neither name nor
\* listen has failed.
C15_Witness ==
    /\ visitor.expect_handler /\ visitor.task_id.some
    /\ visitor.result = ParseErr("handler is expected to have at least name or listen")

\* ---------------------------------------------------------------- C16
\* C16: `when` given as the string e and as the sequence [e] both give the
\* field [e]; a sequence of strings gives itself; any other value fails;
\* a description parsed without `when` has the empty sequence.
C16_WhenNormalised ==
    [][/\ EntryStep =>
             LET e == visitor'.entry
             IN (e.key = "when" /\ "when" \notin visitor'.seen) =>
                   IF e.value.tag = "string"
                   THEN visitor'.when = Some(<<e.value.str>>)
                   ELSE IF /\ e.value.tag = "sequence"
                           /\ \A i \in 1..Len(e.value.seq) : e.value.seq[i].tag = "string"
                   THEN visitor'.when =
                           Some([i \in 1..Len(e.value.seq) |-> e.value.seq[i].str])
                   ELSE visitor'.result.kind = "error" /\ ~visitor'.when.some
       /\ (visitor'.result.kind = "ok" /\ ~visitor'.expect_handler) =>
             TaskDescriptionOf(visitor').when =
                IF visitor'.when.some THEN visitor'.when.val ELSE <<>>
       /\ (visitor'.result.kind = "ok" /\ "when" \notin visitor'.seen
              /\ visitor'.entry.key # "when") =>
             /\ TaskDescriptionOf(visitor').when = <<>>
             /\ HandlerDescriptionOf(visitor').when = <<>>]_<<vars, layers>>

\* C16 witness: a task whose `when` was the string e has been parsed.
C16_Witness ==
    /\ visitor.result.kind = "ok"
    /\ visitor.when = Some(<<"e">>)
    /\ visitor.entry = Entry("when", YString("e"))

\* ------------------------------------------ claims about the command layer
\* The command was spawned as prepared, not replaced by dry-run.
BuiltAsPrepared ==
    child.spawned /\ ~(child.prepared.target.dry /\ ~child.prepared.read_only)
\* The argument that names the host of a Remote target.
HostArgument(t) == IF t.user.some THEN t.user.val \o Str("@") \o t.hostname ELSE t.hostname
\* The elevation vector of a target, empty without elevation.
ElevateOf(t) == IF t.elevate.some THEN t.elevate.val ELSE <<>>
\* The `env --chdir <dir>` prefix of a prepared command, empty without a directory.
EnvPrefix(p) ==
    IF p.working_directory.some
    THEN <<Str("env"), Str("--chdir"), p.working_directory.val>>
    ELSE <<>>

\* ---------------------------------------------------------------- C17
\* C17: on a dry target a command that is not read-only is spawned as `true`
\* with no arguments; a read-only command is spawned as it is on the same
\* target without dry, for a Local target without elevation as the command
\* and its arguments.
C17_DryRun ==
    child.spawned =>
        LET p == child.prepared
        IN /\ (p.target.dry /\ ~p.read_only) => child.argv = <<Str("true")>>
           /\ p.read_only =>
                 /\ child.argv = PrepareCommand([p EXCEPT !.target.dry = FALSE])
                 /\ child.argv # <<Str("true")>>
                 /\ (p.target.kind = "Local" /\ ~p.target.elevate.some) =>
                       child.argv = <<p.command>> \o p.args
                 /\ p.target.kind = "Remote" => Head(child.argv) = Str("ssh")

\* C17 witness: an elevated command for a dry Remote target was spawned as
\* `true`.
C17_Witness ==
    /\ child.spawned /\ ~child.prepared.read_only
    /\ child.prepared.target.dry /\ child.prepared.target.kind = "Remote"
    /\ child.prepared.target.elevate.some /\ child.prepared.working_directory.some
    /\ child.argv = <<Str("true")>>

\* ---------------------------------------------------------------- C18
\* C18 (as claimed): the argv for a Remote target is ssh, the host argument,
\* the `env --chdir` prefix, the elevation vector, the command, its
\* arguments, in this order.
C18_RemoteArgvOrder ==
    (BuiltAsPrepared /\ child.prepared.target.kind = "Remote") =>
        LET p == child.prepared
        IN child.argv = <<Str("ssh"), HostArgument(p.target)>>
                        \o EnvPrefix(p) \o ElevateOf(p.target)
                        \o <<Escape(p.command)>> \o EscapeAll(p.args)

\* ---------------------------------------------------------------- C19
\* C19 (as claimed): in the argv for a Remote target every argument after
\* ssh is the original string with each backslash doubled.
C19_EveryArgumentEscaped ==
    (BuiltAsPrepared /\ child.prepared.target.kind = "Remote") =>
        LET p == child.prepared
            originals == <<HostArgument(p.target)>> \o ElevateOf(p.target)
                         \o EnvPrefix(p) \o <<p.command>> \o p.args
        IN /\ Len(child.argv) = 1 + Len(originals)
           /\ \A i \in 1..Len(originals) : child.argv[i + 1] = Escape(originals[i])

\* ---------------------------------------------------------------- C20
\* C20 (as claimed, for a command that dry-run does not replace):
\* do_become_user is the task's become_user, or root, when become is true
\* and none otherwise, and the argv has the elevation vector for it directly
\* before the command exactly when it is set.
C20_ElevationBeforeCommand ==
    /\ cur # NoTask =>
          do_become_user = IF cur.become
                           THEN (IF cur.become_user # None THEN cur.become_user ELSE "root")
                           ELSE None
    /\ BuiltAsPrepared =>
          LET p == child.prepared
              command == IF p.target.kind = "Remote" THEN Escape(p.command) ELSE p.command
          IN IF do_become_user # None
             THEN \E i \in 1..Len(child.argv) :
                     /\ i + 3 <= Len(child.argv)
                     /\ SubSeq(child.argv, i, i + 2) =
                           <<Str("sudo"), <<"--user=", do_become_user>>, Str("--")>>
                     /\ child.argv[i + 3] = command
             ELSE \A i \in 1..Len(child.argv) : child.argv[i] # Str("sudo")

\* ---------------------------------------------------------------- C21
\* C21: ensure_success is Ok exactly when the child exited with code 0; else it
\* is the Err "unsuccessful run: exit status <n>", n being the exit code when
\* the child exited and 128 + the signal number when a signal killed it.
C21_EnsureSuccess ==
    child.spawned /\ waited.status # NotSpawned =>
        /\ waited.result.ok <=> waited.status.code = Some(0)
        /\ ~waited.result.ok =>
              /\ waited.result.msg = "unsuccessful run: exit status"
              /\ waited.result.n = IF waited.status.code.some
                                   THEN waited.status.code.val
                                   ELSE 128 + waited.status.signal.val

\* A child killed by signal 9 was waited for.
C21_Witness ==
    /\ child.spawned /\ waited.status = Signaled(9)
    /\ waited.result = CommandErr("unsuccessful run: exit status", 137)

\* ---------------------------------------------------------------- C22
\* C22: no guard of the context mutex is alive while run_command_opts spawns
\* the child and waits for it.
C22_NoGuardAcrossWait ==
    lstack # <<>> /\ ltop.fn = "run_command_opts" => mutex = 0

\* ---------------------------------------------------------------- C23
\* C23: run_handlers holds the guard only for the clone, for each lookup and
\* for the clear, never while the module of a handler runs; no function of the
\* engine holds a guard while a function it called runs; and lock().await is
\* never reached while a guard is alive.
EngineFns ==
    {"main", "process_play", "process_role", "register_handlers", "process_tasks",
     "run_handlers", "MetaTask::run"}

C23_NoSelfDeadlock ==
    /\ ~blocked
    /\ \A i \in 1..Len(lstack) :
          /\ lstack[i].fn \in EngineFns /\ i < Len(lstack) => mutex # i
          /\ lstack[i].fn = "run_handlers" /\ i = Len(lstack) =>
                (mutex = i <=> lstack[i].at \in {"clone", "get", "clear"})

\* The task meta flush_handlers called run_handlers, which released the guard
\* of the lookup, and the module of the handler holds the guard it took.
C23_Witness ==
    \E i \in 3..Len(lstack) :
        /\ lstack[i].fn = "run_handlers" /\ lstack[i - 1].fn = "MetaTask::run"
        /\ lstack[i - 2].fn = "process_tasks"
        /\ i < Len(lstack) /\ mutex = i + 1

MetaStep ==
    /\ tpc = "module" /\ cur.task_id = MetaId
    /\ tpc' # "module" \/ error' # error

HandlersStep == pc = "role_handlers" /\ pc' = "role_tasks"

\* The names of a handler h of role r.
NamesOf(h, r) ==
    (IF h.name # None THEN {h.name, r \o " : " \o h.name} ELSE {})
        \cup (IF h.listen # None THEN {h.listen} ELSE {})

\* C26: once handlers/main.yml of a role is registered, each of its handlers
\* is the value of known_handlers under each of its names, unless a later
\* handler of the file has the same name; the values under all other keys
\* stay as they are, and stay so until the next file is registered; and
\* the handler a flush runs for a name is the value of known_handlers under it.
C26_HandlersKnown ==
    [][/\ HandlersStep /\ loaded'.some =>
             LET hs == loaded'.val
             IN /\ \A i \in 1..Len(hs) : \A k \in NamesOf(hs[i], role) :
                      /\ k \in DOMAIN known_handlers'
                      /\ \/ known_handlers'[k] = hs[i]
                         \/ \E j \in (i + 1)..Len(hs) : k \in NamesOf(hs[j], role)
                /\ \A k \in DOMAIN known_handlers :
                      k \notin UNION {NamesOf(hs[i], role) : i \in 1..Len(hs)} =>
                          k \in DOMAIN known_handlers' /\ known_handlers'[k] = known_handlers[k]
       /\ ~(HandlersStep /\ loaded'.some) /\ pc # "main" => UNCHANGED known_handlers
       /\ \A f \in Frames' :
             f.hpc = "module" =>
                 /\ Last(f.dispatched) \in DOMAIN known_handlers'
                 /\ f.handler = known_handlers'[Last(f.dispatched)]]_vars

\* The handler named h1 of role r1 runs for the notify "r1 : h1".
C26_Witness ==
    \E f \in Frames :
        /\ f.hpc = "module" /\ Last(f.dispatched) = "r1 : h1"
        /\ f.handler.name = "h1" /\ f.handler.task_id = ShellId

\* ------------------------------------------------- claims about module systemd
\* The verbs a task asks for, in the order of the claim.
ExpectedVerbs(t) ==
    (IF t.daemon_reload = Some(TRUE) THEN <<"daemon-reload">> ELSE <<>>)
    \o (IF t.enabled = Some(TRUE) THEN <<"enable">>
        ELSE IF t.enabled = Some(FALSE) THEN <<"disable">> ELSE <<>>)
    \o (IF t.masked = Some(TRUE) THEN <<"mask">>
        ELSE IF t.masked = Some(FALSE) THEN <<"unmask">> ELSE <<>>)
    \o (IF t.state = Some("reloaded") THEN <<"reload">>
        ELSE IF t.state = Some("restarted") THEN <<"restart">>
        ELSE IF t.state = Some("started") THEN <<"start">>
        ELSE IF t.state = Some("stopped") THEN <<"stop">> ELSE <<>>)

Verbs(commands) == [i \in 1..Len(commands) |-> commands[i][3]]
StateVerbs == {"reload", "restart", "start", "stop"}
LinkVerbs == {"enable", "disable", "mask", "unmask"}

\* The commands run so far are the first of the commands asked for, in the
\* order daemon-reload, enable/disable, mask/unmask, state change; they are
\* all of them when the task has succeeded; each is systemctl with the flag
\* of the scope, and all but daemon-reload end with the name.
OrderAndScope ==
    LET t == systemd.task
    IN /\ IsPrefix(Verbs(systemd.emitted), ExpectedVerbs(t))
       /\ systemd.result = TaskOk => Verbs(systemd.emitted) = ExpectedVerbs(t)
       /\ \A i \in 1..Len(systemd.emitted) :
             LET c == systemd.emitted[i]
             IN /\ c[1] = "systemctl"
                /\ c[2] = (IF t.scope = Some("user") THEN "--user"
                           ELSE IF t.scope = Some("global") THEN "--global"
                           ELSE "--system")
                /\ c[3] # "daemon-reload" => t.name.some /\ c[Len(c)] = t.name.val

\* --no-block is in the state-change command of a task with no_block, and in
\* no other command.
NoBlockOnStateChangeOnly ==
    \A i \in 1..Len(systemd.emitted) :
        LET c == systemd.emitted[i]
        IN "--no-block" \in Range(c) <=>
               systemd.task.no_block = Some(TRUE) /\ c[3] \in StateVerbs

\* ---------------------------------------------------------------- C27
\* C27 as stated: the order, one command per effect asked for, the scope
\* flag, --no-block on the state change only, and --force in the commands of
\* a task with force set.
C27_ForceOnTheCommands ==
    /\ OrderAndScope
    /\ NoBlockOnStateChangeOnly
    /\ \A i \in 1..Len(systemd.emitted) :
          "--force" \in Range(systemd.emitted[i]) <=> systemd.task.force = Some(TRUE)

\* C27, amended: the order, one command per effect asked for, the scope flag,
\* --no-block on the state change only, and --force in the enable/disable and
\* mask/unmask commands of a task with force set, never in daemon-reload or
\* the state change.
C27_SystemdCommands ==
    /\ OrderAndScope
    /\ NoBlockOnStateChangeOnly
    /\ \A i \in 1..Len(systemd.emitted) :
          LET c == systemd.emitted[i]
          IN "--force" \in Range(c) <=>
                 systemd.task.force = Some(TRUE) /\ c[3] \in LinkVerbs

\* A task that asks for the four effects with force and no_block has succeeded.
C27_Witness ==
    /\ systemd.at = "returned" /\ systemd.result = TaskOk
    /\ Len(systemd.emitted) = 4
    /\ systemd.task.force = Some(TRUE) /\ systemd.task.no_block = Some(TRUE)
    /\ systemd.task.scope = Some("user")

\* ---------------------------------------------------------------- C28
\* C28: a task that sets enabled, masked or state and has no name fails; it
\* has run no command but the daemon-reload it may ask for, and when that
\* did not fail the Err is "systemd service name is required". A task that
\* sets none of the three never fails for its name.
C28_NameRequired ==
    LET t == systemd.task
        needs == t.enabled.some \/ t.masked.some \/ t.state.some
    IN systemd.at = "returned" =>
         /\ needs /\ ~t.name.some =>
               /\ Verbs(systemd.emitted) \in {<<>>, <<"daemon-reload">>}
               /\ \/ systemd.result = TaskErr("systemd service name is required")
                  \/ /\ systemd.result = TaskErr("unsuccessful run")
                     /\ Verbs(systemd.emitted) = <<"daemon-reload">>
         /\ ~needs =>
               /\ systemd.result # TaskErr("systemd service name is required")
               /\ systemd.result = TaskOk \/ Verbs(systemd.emitted) = <<"daemon-reload">>

\* A task with state and daemon_reload but no name has failed for its name,
\* after its daemon-reload.
C28_Witness ==
    /\ systemd.at = "returned" /\ ~systemd.task.name.some /\ systemd.task.state.some
    /\ Verbs(systemd.emitted) = <<"daemon-reload">>
    /\ systemd.result = TaskErr("systemd service name is required")

\* ------------------------------------------------ claims about the local files
\* The candidates of the call recorded in `resolved`, in the order of the
\* claim: an absolute name alone; else, for each resource directory in turn,
\* <dir>/<subdir>/<name> then <dir>/<name>, then <play_basedir>/<name>, then
\* <play_basedir>/<subdir>/<name>.
Candidates ==
    LET name == resolved.name
        sub == resolved.subdirectory
        k == Len(resource_dirs)
    IN IF Head(name) = "/" THEN <<name>>
       ELSE [j \in 1..(2 * k + 2) |->
                IF j <= 2 * k
                THEN (IF j % 2 = 1 THEN resource_dirs[(j + 1) \div 2] \o sub \o name
                      ELSE resource_dirs[j \div 2] \o name)
                ELSE IF j = 2 * k + 1 THEN play_basedir \o name
                ELSE play_basedir \o sub \o name]

\* ---------------------------------------------------------------- C29
\* C29: resolve_local_file returns the first candidate that exists, an
\* absolute name being its own only candidate, and the Err "could not find
\* file specified as '<name>'" when none exists.
C29_FirstExistingCandidate ==
    resolved.name # <<>> =>
        LET existing == {j \in 1..Len(Candidates) : Candidates[j] \in resolved.fs}
        IN IF existing = {}
           THEN /\ ~resolved.result.ok
                /\ resolved.result.msg = "could not find file specified as"
           ELSE /\ resolved.result.ok
                /\ \E j \in existing :
                      /\ \A i \in existing : j <= i
                      /\ resolved.result.path = Candidates[j]

\* hello.txt is in files/ of the second of two roles, in the directory of
\* the first and in the play's directory: the copy of the first role is found.
C29_Witness ==
    /\ Len(resource_dirs) = 2 /\ play_basedir = PlaybookDir
    /\ resolved.name = <<"hello.txt">> /\ resolved.subdirectory = <<"files">>
    /\ resolved.fs = {resource_dirs[2] \o <<"files", "hello.txt">>,
                      resource_dirs[1] \o <<"hello.txt">>,
                      play_basedir \o <<"hello.txt">>}
    /\ resolved.result.ok
    /\ resolved.result.path = resource_dirs[1] \o <<"hello.txt">>

\* ---------------------------------------------------------------- C30
\* C30: while a play runs play_basedir is the directory of the playbook, and
\* while the tasks of a role run resource_dirs begins with the directory of
\* that role, so that a file in its files/ is found.
C30_ResourceDirs ==
    /\ pc \notin {"main", "exit"} => play_basedir = PlaybookDir
    /\ pc = "role_tasks" =>
          /\ resource_dirs # <<>>
          /\ Head(resource_dirs) = RoleBasedir(PlaybookDir, role)
          /\ ResolveLocalFileOf(
                 play_basedir, resource_dirs, <<"files">>, <<"hello.txt">>,
                 {RoleBasedir(PlaybookDir, role) \o <<"files", "hello.txt">>}).ok


\* ---------------------------------------------------------------- C31
\* C31: when, delegate_to, register and vars are not acted upon. Every task
\* the loop takes has its module invoked, whatever its when list; when the
\* module returns Ok the facts are those the module's own args leave (no key
\* from register, none from vars); and the command target stays the default
\* whatever delegate_to is.
C31_FieldsNotActedUpon ==
    [][/\ tpc = "loop" /\ cur' # cur => tpc' = "module"
       /\ tpc = "module" /\ tpc' = "notify" =>
              facts' = IF cur.task_id = SetFactId THEN SetFact(facts, cur.args.map)
                       ELSE facts
       /\ command_target' = DefaultTarget]_vars

\* C31 witness: the module of a shell task with a false when, a delegate_to,
\* a register and vars has returned Ok; no fact is named as its register or
\* its vars.
C31_Witness ==
    /\ tpc = "notify" /\ cur \in TaskDescriptions
    /\ cur.task_id = ShellId
    /\ cur.when = <<"false">> /\ cur.delegate_to = "h2"
    /\ cur.register = "b" /\ cur.vars.some
    /\ "b" \notin DOMAIN facts
    /\ command_target = DefaultTarget

\* ---------------------------------------------------------------- C32
\* C32: once a handlers/main.yml is registered, the value of known_handlers
\* under a key is the last handler of the file that has the key among its
\* names, whatever was registered under it before (by the file or by an
\* earlier role), and the value it had when no handler of the file has the
\* key; and a pop of a key that is declared invokes the one handler that is
\* the value under the key, once for the entry popped.
C32_LastRegisteredWins ==
    [][/\ HandlersStep /\ loaded'.some =>
             LET hs == loaded'.val
             IN \A k \in DOMAIN known_handlers' :
                   LET is == {i \in 1..Len(hs) : k \in NamesOf(hs[i], role)}
                   IN known_handlers'[k] =
                         IF is # {}
                         THEN hs[CHOOSE i \in is : \A j \in is : j <= i]
                         ELSE known_handlers[k]
       /\ PopStep /\ error' = error =>
             LET n == Head(top.queue)
                 f == hstack'[Len(hstack)]
             IN /\ Len(hstack') = Len(hstack)
                /\ f.hpc = "module" /\ f.handler = known_handlers[n]
                /\ f.dispatched = Append(top.dispatched, n)
                /\ f.queue = Tail(top.queue)]_vars

\* C32 witness: the file of a role has a handler named h1 and after it one
\* that listens to h1; a notify of h1 runs the second.
C32_Witness ==
    /\ loaded.some /\ Len(loaded.val) = 2
    /\ loaded.val[1].name = "h1" /\ loaded.val[2].listen = "h1"
    /\ \E f \in Frames :
          /\ f.hpc = "module" /\ Last(f.dispatched) = "h1"
          /\ f.handler = loaded.val[2]
          /\ known_handlers[Qualified(role, "h1")] = loaded.val[1]

\* ---------------------------------------------------------------- C33
\* The run_handlers call of a task meta flush_handlers returns Ok.
MetaFlushReturns == tpc = "module_flush" /\ tpc' = "notify"

\* C33: when the flush of a task meta flush_handlers returns, it has
\* dispatched every entry queued when it began, pending_handlers is empty,
\* no notification is left unserved, and the loop is still at the meta task;
\* and a notification is served once: outside a flush called by a handler,
\* no name has more handler runs than notifications.
C33_MetaFlushBetweenTasks ==
    [][/\ MetaFlushReturns =>
             /\ top.dispatched = top.snapshot
             /\ top.snapshot = pending_handlers
             /\ pending_handlers' = <<>>
             /\ owed' = ZeroOwed
             /\ cur' = cur /\ inflight' = 0
       /\ Len(hstack) <= 1 /\ Len(hstack') <= 1 =>
             \A n \in NotifyNames : owed'[n] >= 0]_vars

\* C33 witness: a task meta flush_handlers among the tasks of a role or of
\* the play has returned after a handler ran, and nothing is pending.
C33_Witness ==
    /\ tpc = "notify" /\ pc \in {"role_tasks", "tasks"}
    /\ cur.task_id = MetaId /\ cur.args = VString("flush_handlers")
    /\ ranAny /\ pending_handlers = <<>> /\ owed = ZeroOwed

\* ---------------------------------------------------------------- C34
\* C34: when main takes the next play, process_play begins with the default
\* context: no fact, no known handler, nothing pending and no become user,
\* whatever the play before left; and no call of the play before is still
\* in progress.
C34_FreshContext ==
    [][pc = "main" /\ pc' = "pre_tasks" =>
          /\ facts' = EmptyMap
          /\ DOMAIN known_handlers' = {}
          /\ pending_handlers' = <<>>
          /\ do_become_user' = None
          /\ tpc' = "idle" /\ hstack' = <<>>]_vars

\* C34 witness: a play has ended and left facts, handlers and a become user
\* in its context; main takes the next play from here.
C34_Witness ==
    /\ pc = "main" /\ error = NoError /\ phase \in {"flushed", "post_flushed"}
    /\ facts # EmptyMap
    /\ DOMAIN known_handlers # {}
    /\ do_become_user = "u"

\* ---------------------------------------------------------------- C35
\* C35: do_become_user is written only where process_tasks takes a task (and
\* where a play begins), never by a step of a flush; and the command of a
\* handler is elevated with sudo for the do_become_user the last task left,
\* or not at all when it left none, whatever the handler's own become and
\* become_user are.
C35_HandlerElevation ==
    [][/\ do_become_user' # do_become_user =>
             \/ tpc = "loop" /\ tpc' = "module" /\ do_become_user' = BecomeUser(cur')
             \/ pc = "main"
       /\ hstack # <<>> \/ hstack' # <<>> => do_become_user' = do_become_user
       /\ child' # child =>
             /\ top.hpc = "module"
             /\ child'.argv =
                   (IF do_become_user = None THEN <<>>
                    ELSE <<Str("sudo"), <<"--user=", do_become_user>>, Str("--")>>)
                   \o <<Str("/bin/sh"), Str("-c"), Str(top.handler.args.map.cmd)>>
      ]_<<vars, layers>>

\* C35 witness: a handler with become_user v is being run after a task with
\* become_user u, and its command was spawned under sudo --user=u.
C35_Witness ==
    /\ hstack # <<>> /\ top.hpc = "module"
    /\ top.handler.become /\ top.handler.become_user = "v"
    /\ do_become_user = "u"
    /\ child.spawned /\ child.argv[2] = <<"--user=", "u">>

\* ---------------------------------------------------------------- C36
\* C36: while process_play is at its pre_tasks no handler is registered; a
\* name popped by a flush there, the closing one or that of a task meta
\* flush_handlers, fails the play with "Handler is not declared" and that
\* name; and process_play goes on to its roles only if no task of the
\* pre_tasks has pushed a notify entry.
C36_PreTasksHaveNoHandlers ==
    [][/\ pc' = "pre_tasks" => DOMAIN known_handlers' = {}
       /\ pc = "pre_tasks" /\ PopStep =>
             /\ error' = Err("Handler is not declared", Head(top.queue))
             /\ pc' = pc /\ tpc' = tpc
       /\ pc = "pre_tasks" /\ pc' # pc =>
             /\ pc' = "roles"
             /\ owed = ZeroOwed /\ pending_handlers = <<>> /\ ~ranAny]_vars

\* C36 witness: the flush that closes the pre_tasks has failed on the name a
\* task of the pre_tasks had notified.
C36_Witness ==
    /\ pc = "pre_tasks" /\ tpc = "endflush"
    /\ error = Err("Handler is not declared", "h1")
    /\ owed["h1"] > 0 /\ unpushed = 0

\* ---------------------------------------------------------------- C37
\* C37: the name is looked at in the blocks of enabled, masked and state
\* only. A task with daemon_reload true has its daemon-reload command run by
\* the first block, whether or not it has a name; the missing-name Err is
\* returned by the first of the three blocks the task asks for, and
\* by then the daemon-reload of a task that asked for it has run; so a task
\* with daemon_reload true, one of the three and no name returns with
\* exactly that one command run, its Err the missing name (or the failure of
\* the daemon-reload itself).
C37_NameCheckedAtEachEffect ==
    [][LET t == systemd.task
           reload == t.daemon_reload = Some(TRUE)
           needs == t.enabled.some \/ t.masked.some \/ t.state.some
           missing == TaskErr("systemd service name is required")
           first == IF t.enabled.some THEN "enabled"
                    ELSE IF t.masked.some THEN "masked" ELSE "state"
       IN /\ systemd.at = "daemon_reload" /\ reload =>
                /\ systemd'.emitted = <<DaemonReloadCommand(t)>>
                /\ systemd'.result # missing
          /\ systemd.result # missing /\ systemd'.result = missing =>
                /\ ~t.name.some /\ needs /\ systemd.at = first
                /\ systemd'.emitted = systemd.emitted
                /\ systemd.emitted = IF reload THEN <<DaemonReloadCommand(t)>> ELSE <<>>
          /\ reload /\ needs /\ ~t.name.some
               /\ systemd.at # "returned" /\ systemd'.at = "returned" =>
                /\ systemd'.emitted = <<DaemonReloadCommand(t)>>
                /\ systemd'.result \in {missing, TaskErr("unsuccessful run")}
      ]_<<vars, layers>>

\* C37 witness: a task of the user scope with daemon_reload and enabled but
\* no name has returned the missing-name Err after systemctl --user
\* daemon-reload.
C37_Witness ==
    /\ systemd.at = "returned"
    /\ systemd.task.daemon_reload = Some(TRUE) /\ systemd.task.enabled = Some(TRUE)
    /\ systemd.task.name = Absent /\ systemd.task.scope = Some("user")
    /\ systemd.emitted = << <<"systemctl", "--user", "daemon-reload">> >>
    /\ systemd.result = TaskErr("systemd service name is required")

====
